---- MODULE Spec2Model ----
(***************************************************************************)
(* devsync: the two synchronisation mechanisms of the collaborative        *)
(* session (whiteboard sync in the room page, LiveKitYjsProvider document  *)
(* bridge) and the small data-channel handlers beside them (cursor         *)
(* presence, reactions), as state machines over per-sender FIFO channels.  *)
(***************************************************************************)
EXTENDS Integers, Sequences, FiniteSets, TLC

\* ------------------------------------------------------------------------
\* Bounds of the model
\* ------------------------------------------------------------------------

\* local adds in one run of the two-party session (each draws a fresh id)
MaxAdds == 2
\* local removes and clears in one run of the two-party session
MaxErase == 1
\* local adds in one run of the three-party session
MaxAdds3 == 1
\* local removes and clears in one run of the three-party session
MaxErase3 == 1
\* ids of the elements a scenario may start with
MaxLen == 2

MaxEdits == 2

MaxDisconnects == 1

MaxEdits3 == 1

MaxLifeOps == 2

MaxFaultOps == 2

MaxReadyOps == 2

MaxParseOps == 1

\* requestSync delays of one participant running at the same time
MaxMounts == 2

\* runs of the stale cursor sweep
MaxSweeps == 5

\* local whiteboard operations of a sequential session
MaxSeqOps == 2

\* undo and redo clicks of a scenario
MaxUndos == 2

\* elements drawn and boards cleared in a scenario with a second participant
MaxPushes == 3

\* snapshots pushed beyond the limit of the history
MaxOverflow == 2

\* the largest maxSize handed to the history hook
MaxSize == 2

\* calls of the history hook in a scenario, its first render included
MaxHookCalls == 5

\* milliseconds of cursor movement followed after the mount
MaxElapsed == 70

MaxReactions == 1

\* CURSOR_COLORS.length
CursorColors == 8

\* ------------------------------------------------------------------------
\* Participants, values
\* ------------------------------------------------------------------------

Participants == {"A", "B", "C"}

None == "none"

Undefined == "undefined"

\* the tools the canvas turns into an element on pointer-up
PenTools == {"pen", "highlighter"}

DrawTools == {"pen", "rectangle"}

\* ------------------------------------------------------------------------
\* Whiteboard elements and the JSON envelope
\* ------------------------------------------------------------------------

\* Canvas.handlePointerUp: the element built from the gesture
NewElement(id, tool) ==
    [id |-> id, tool |-> tool,
     type |-> IF tool \in PenTools THEN "stroke" ELSE "shape"]

\* Whiteboard.handleAddElement: the legacy Stroke handed to the room page
LegacyStroke(element) ==
    [id |-> element.id, tool |-> element.tool, type |-> element.type]

NoStroke == [id |-> 0, tool |-> Undefined, type |-> Undefined]

\* the envelope objects of the whiteboard topic
StrokeMsg(stroke) == [type |-> "stroke", data |-> stroke, id |-> 0, strokes |-> <<>>]

RemoveMsg(id) == [type |-> "remove", data |-> NoStroke, id |-> id, strokes |-> <<>>]

ClearMsg == [type |-> "clear", data |-> NoStroke, id |-> 0, strokes |-> <<>>]

SyncRequestMsg == [type |-> "sync-request", data |-> NoStroke, id |-> 0, strokes |-> <<>>]

SyncResponseMsg(list) == [type |-> "sync-response", data |-> NoStroke, id |-> 0, strokes |-> list]

\* JSON.stringify of a stroke object: the keys whose value is undefined are
\* left out of the text
JsonStringifyStroke(s) ==
    [k \in {"id"} \cup {f \in {"tool", "type"} : s[f] # Undefined} |-> s[k]]

\* JSON.parse of that text: a key that is absent reads as undefined
JsonParseStroke(text) ==
    [id |-> text.id,
     tool |-> IF "tool" \in DOMAIN text THEN text.tool ELSE Undefined,
     type |-> IF "type" \in DOMAIN text THEN text.type ELSE Undefined]

\* encoder.encode(JSON.stringify(envelope))
EncodeWb(msg) ==
    [wellFormed |-> TRUE, type |-> msg.type,
     data |-> IF msg.type = "stroke" THEN <<JsonStringifyStroke(msg.data)>> ELSE <<>>,
     id |-> msg.id,
     strokes |-> [i \in DOMAIN msg.strokes |-> JsonStringifyStroke(msg.strokes[i])]]

\* bytes on the whiteboard topic that are not a JSON text
NotJson ==
    [wellFormed |-> FALSE, type |-> "", data |-> <<>>, id |-> 0, strokes |-> <<>>]

\* JSON.parse(decoder.decode(payload)) throws a SyntaxError
JsonParseThrows(payload) == ~payload.wellFormed

\* JSON.parse(decoder.decode(payload))
DecodeWb(payload) ==
    [type |-> payload.type,
     data |-> IF payload.data # <<>> THEN JsonParseStroke(payload.data[1]) ELSE NoStroke,
     id |-> payload.id,
     strokes |-> [i \in DOMAIN payload.strokes |-> JsonParseStroke(payload.strokes[i])]]

\* ------------------------------------------------------------------------
\* State
\* ------------------------------------------------------------------------

VARIABLES
    strokes,        \* page.tsx: the strokes state of each participant
    strokesRef,     \* page.tsx: strokesRef.current
    wbListening,    \* the whiteboard data effect is mounted (not cleaned up)
    wbTimer,        \* the requestSync calls in their delay, oldest first
    roomState,      \* room.state of each participant
    wbNet,          \* whiteboard topic: packets in flight, per sender and receiver
    nextId,         \* ids handed out so far (generateId)
    erased,         \* local removes and clears of each participant so far
    wbEvent,        \* the last whiteboard step and what it published
    history,        \* WhiteboardPro: the history state of each participant
    historyIndex,   \* WhiteboardPro: the historyIndex state (counted from 0)
    historyState,   \* useWhiteboardHistory: the state { past, present, future }
    historyCalls,   \* useWhiteboardHistory: its maxSize and the calls made so far
    ydoc,           \* LiveKitYjsProvider.doc: the updates each document holds
    bridge,         \* LiveKitYjsProvider: room, localParticipant, connected, synced
    syncTimers,     \* requestSync calls in their delay: the time each was made
    docNet,         \* document topics: packets in flight, per sender and receiver
    nextUpdate,     \* document updates created so far
    awareness,      \* Awareness: the clock each bridge holds for each client
    disconnects,    \* disconnect() calls that took effect so far
    lifetime,       \* per connection lifetime: snapshots applied and received
    tally,          \* per bridge: connects that took effect, sync-requests published
    docEvent,       \* the last document-bridge step and what it published
    cursors,        \* usePresence: the cursors state of each participant
    floatingReactions, \* Reactions: the floatingReactions state
    reactionSeq,    \* reaction ids handed out so far
    now,            \* Date.now()
    loopEvent,      \* the last handler run on a packet of the local identity
    lastBroadcastRef,   \* usePresence: lastBroadcastRef.current
    pendingPositionRef, \* usePresence: pendingPositionRef.current
    animationFrameRef,  \* usePresence: animationFrameRef.current
    rafQueue,       \* callbacks handed to requestAnimationFrame, not yet run
    presenceNet,    \* cursor-presence topic: packets in flight
    cursorSent,     \* Date.now() at the last cursor message each one published
    presenceEvent   \* the last usePresence step and what it published

\* the undo history of the whiteboard component and of the history hook
historyVars == <<history, historyIndex, historyState, historyCalls>>

\* the whiteboard's own state
wbOnly == <<strokes, strokesRef, wbListening, wbTimer, wbNet, nextId, erased, wbEvent,
            historyVars>>

\* the document bridge's own state
docVars == <<ydoc, bridge, awareness, syncTimers, docNet, nextUpdate, disconnects, lifetime, tally, docEvent>>

\* what the document bridge leaves alone
\* presence and reactions
\* the cursor broadcast of usePresence
presenceVars == <<lastBroadcastRef, pendingPositionRef, animationFrameRef, rafQueue,
                  presenceNet, cursorSent, presenceEvent>>

uiVars == <<cursors, floatingReactions, reactionSeq, now, loopEvent, presenceVars>>

\* presence and reactions without the clock
uiOnly == <<cursors, floatingReactions, reactionSeq, loopEvent, presenceVars>>

nonDoc == <<wbOnly, roomState, uiVars>>

\* what the whiteboard leaves alone
nonWb == <<docVars, uiVars>>

wbVars == <<wbOnly, roomState>>

vars == <<wbOnly, roomState, docVars, uiVars>>

Pair == {"A", "B"}

EmptyNet == [s \in Participants |-> [r \in Participants |-> <<>>]]

\* a publish whose failure is thrown on to the caller
PublishOutcome_Rethrows(out, ok) ==
    IF out = <<>> THEN "none" ELSE IF ok THEN "sent" ELSE "thrown"

\* try { await localParticipant.publishData(...) } catch (err) { console.warn }
\* and publishData(...).catch(console.warn): how a publish of `out` ends for
\* the caller
PublishOutcome(out, ok) ==
    IF out = <<>> THEN "none" ELSE IF ok THEN "sent" ELSE "logged"

\* pushToHistory: if (newHistory.length > 50) newHistory.shift()
HISTORY_LIMIT == 50

\* pushToHistory: setHistoryIndex(prev => Math.min(prev + 1, 49))
HISTORY_LAST_INDEX == 49

\* constants.ts: HISTORY.maxSize
HISTORY_maxSize == 50

NoEvent == [op |-> "init", at |-> None, from |-> None, msg |-> ClearMsg,
            before |-> <<>>, published |-> <<>>, outcome |-> "none",
            room |-> Undefined, errors |-> 0, undone |-> 0]

\* nothing drawn and nothing undone yet: history = [[]], historyIndex = 0, and
\* a history hook that holds an empty board
IdleHistory ==
    /\ history = [p \in Participants |-> << <<>> >>]
    /\ historyIndex = [p \in Participants |-> 0]
    /\ historyState = [past |-> <<>>, present |-> <<>>, future |-> <<>>]
    /\ historyCalls = [maxSize |-> HISTORY_maxSize, calls |-> 0]

\* the step taken at `at`: the list and the room state it started from, what
\* it handed to publishData (out), what went out and how the publish ended,
\* and the parse errors the whiteboard handlers have caught so far
Event(op, at, from, msg, before, out, ok) ==
    [op |-> op, at |-> at, from |-> from, msg |-> msg,
     before |-> before, published |-> IF ok THEN out ELSE <<>>,
     outcome |-> PublishOutcome(out, ok), room |-> roomState[at],
     errors |-> wbEvent.errors + (IF op = "caught" THEN 1 ELSE 0),
     undone |-> wbEvent.undone + (IF op \in {"undo", "redo"} THEN 1 ELSE 0)]

\* ------------------------------------------------------------------------
\* Sequence helpers
\* ------------------------------------------------------------------------

RECURSIVE FilterOutId(_, _)
\* prev.filter(s => s.id !== id)
FilterOutId(list, id) ==
    IF list = <<>> THEN <<>>
    ELSE IF Head(list).id # id
         THEN <<Head(list)>> \o FilterOutId(Tail(list), id)
         ELSE FilterOutId(Tail(list), id)

Ids(list) == {list[i].id : i \in DOMAIN list}

\* ------------------------------------------------------------------------
\* Whiteboard sync (room page)
\* ------------------------------------------------------------------------

\* localParticipant.publishData(..., {reliable: true, topic: 'whiteboard'}):
\* the room forwards the packet to every other participant connected to it;
\* a publish that fails (ok = FALSE) sends nothing and the error is logged
WbPublish(net, p, msgs, ok) ==
    [s \in Participants |-> [r \in Participants |->
        IF s = p /\ r # p /\ roomState[r] = "connected" /\ ok
        THEN net[s][r] \o [i \in DOMAIN msgs |-> EncodeWb(msgs[i])]
        ELSE net[s][r]]]

\* a handleData that takes a sync-response only on an empty board
HandleDataStrokes_GuardedSync(list, json) ==
    CASE json.type = "stroke" -> Append(list, json.data)
      [] json.type = "clear" -> <<>>
      [] json.type = "remove" -> IF json.id # 0 THEN FilterOutId(list, json.id) ELSE list
      [] json.type = "sync-response" -> IF list = <<>> THEN json.strokes ELSE list
      [] OTHER -> list

\* a handleData that adds the received full state to the board
HandleDataStrokes_MergeSync(list, json) ==
    CASE json.type = "stroke" -> Append(list, json.data)
      [] json.type = "clear" -> <<>>
      [] json.type = "remove" -> IF json.id # 0 THEN FilterOutId(list, json.id) ELSE list
      [] json.type = "sync-response" -> list \o json.strokes
      [] OTHER -> list

\* a handleData that puts a received element in front
HandleDataStrokes_PrependStroke(list, json) ==
    CASE json.type = "stroke" -> <<json.data>> \o list
      [] json.type = "clear" -> <<>>
      [] json.type = "remove" -> IF json.id # 0 THEN FilterOutId(list, json.id) ELSE list
      [] json.type = "sync-response" -> json.strokes
      [] OTHER -> list

\* a handleData without the clear branch
HandleDataStrokes_NoClear(list, json) ==
    CASE json.type = "stroke" -> Append(list, json.data)
      [] json.type = "remove" -> IF json.id # 0 THEN FilterOutId(list, json.id) ELSE list
      [] json.type = "sync-response" -> json.strokes
      [] OTHER -> list

\* handleData: the list after a message from a remote identity
HandleDataStrokes(list, json) ==
    CASE json.type = "stroke" -> Append(list, json.data)
      [] json.type = "clear" -> <<>>
      [] json.type = "remove" -> IF json.id # 0 THEN FilterOutId(list, json.id) ELSE list
      [] json.type = "sync-response" -> json.strokes
      [] OTHER -> list

\* handleData: what a message from a remote identity makes p publish
HandleDataReply(p, json) ==
    IF json.type = "sync-request"
       /\ Len(strokesRef[p]) > 0 /\ roomState[p] = "connected"
    THEN <<SyncResponseMsg(strokesRef[p])>>
    ELSE <<>>

\* a catch block that empties the board
OnParseError_Clears(list) == <<>>

\* catch (err) { console.error("Error decoding whiteboard data", err) }
OnParseError(list) == list

\* handleData(payload, participant, kind, 'whiteboard') at p; net is the
\* topic's traffic once the packet is taken off the wire
HandleData(p, sender, payload, net, ok) ==
    LET json == DecodeWb(payload)
        own == sender = p
        caught == ~own /\ JsonParseThrows(payload)
        reply == IF own \/ caught THEN <<>> ELSE HandleDataReply(p, json)
    IN  /\ strokes' = [strokes EXCEPT ![p] =
                IF own THEN strokes[p]
                ELSE IF caught THEN OnParseError(strokes[p])
                ELSE HandleDataStrokes(strokes[p], json)]
        /\ wbNet' = WbPublish(net, p, reply, ok)
        /\ wbEvent' = Event(IF caught THEN "caught" ELSE "handleData",
                            p, sender, json, strokes[p], reply, ok)

\* RoomEvent.DataReceived on the whiteboard topic: the packet at the head of
\* the channel from s reaches r; with no listener mounted it is dropped
DeliverWb(s, r, ok) ==
    /\ wbNet[s][r] # <<>>
    /\ LET payload == Head(wbNet[s][r])
           rest == [wbNet EXCEPT ![s][r] = Tail(wbNet[s][r])]
       IN  IF wbListening[r]
           THEN HandleData(r, s, payload, rest, ok)
           ELSE /\ wbNet' = rest
                /\ wbEvent' = Event("dropped", r, s, DecodeWb(payload), strokes[r], <<>>, TRUE)
                /\ UNCHANGED strokes
    /\ UNCHANGED <<strokesRef, wbListening, wbTimer, roomState, nextId, historyVars, erased, nonWb>>

\* a local handler that publishes whatever the room state
LocalPublish_Unguarded(p, msg) == <<msg>>

\* what a local handler publishes: nothing unless the room is connected
LocalPublish(p, msg) ==
    IF roomState[p] = "connected" THEN <<msg>> ELSE <<>>

\* handleAddStroke, reached from Canvas.handlePointerUp through
\* Whiteboard.handleAddElement with a freshly generated id
OnAddStroke(p, tool, ok) ==
    /\ LET stroke == LegacyStroke(NewElement(nextId + 1, tool))
           out == LocalPublish(p, StrokeMsg(stroke))
       IN  /\ strokes' = [strokes EXCEPT ![p] = Append(strokes[p], stroke)]
           /\ wbNet' = WbPublish(wbNet, p, out, ok)
           /\ wbEvent' = Event("add", p, p, StrokeMsg(stroke), strokes[p],
                               out, ok)
    /\ nextId' = nextId + 1
    /\ UNCHANGED <<strokesRef, wbListening, wbTimer, roomState, erased, nonWb>>

\* an element added with the undo history of the component left out of account
HandleAddStroke(p, tool, ok) ==
    OnAddStroke(p, tool, ok) /\ UNCHANGED historyVars

\* handleRemoveStroke, reached from the eraser with the id of an element on
\* the board
HandleRemoveStroke(p, id, ok) ==
    /\ id \in Ids(strokes[p])
    /\ LET out == LocalPublish(p, RemoveMsg(id))
       IN  /\ strokes' = [strokes EXCEPT ![p] = FilterOutId(strokes[p], id)]
           /\ wbNet' = WbPublish(wbNet, p, out, ok)
           /\ wbEvent' = Event("remove", p, p, RemoveMsg(id), strokes[p],
                               out, ok)
    /\ erased' = [erased EXCEPT ![p] = erased[p] + 1]
    /\ UNCHANGED <<strokesRef, wbListening, wbTimer, roomState, nextId, historyVars, nonWb>>

\* handleClear
OnClear(p, ok) ==
    /\ LET out == LocalPublish(p, ClearMsg)
       IN  /\ strokes' = [strokes EXCEPT ![p] = <<>>]
           /\ wbNet' = WbPublish(wbNet, p, out, ok)
           /\ wbEvent' = Event("clear", p, p, ClearMsg, strokes[p],
                               out, ok)
    /\ erased' = [erased EXCEPT ![p] = erased[p] + 1]
    /\ UNCHANGED <<strokesRef, wbListening, wbTimer, roomState, nextId, nonWb>>

\* a clear with the undo history of the component left out of account
HandleClear(p, ok) ==
    OnClear(p, ok) /\ UNCHANGED historyVars

\* useEffect(() => { strokesRef.current = strokes }, [strokes]): runs after
\* the render that follows a change of the list
StrokesRefEffect(p) ==
    /\ strokesRef[p] # strokes[p]
    /\ strokesRef' = [strokesRef EXCEPT ![p] = strokes[p]]
    /\ wbEvent' = Event("effect", p, p, ClearMsg, strokes[p], <<>>, TRUE)
    /\ UNCHANGED <<strokes, wbListening, wbTimer, roomState, wbNet, nextId, historyVars, erased, nonWb>>

\* setTimeout(r, 1500) in requestSync
WB_SYNC_DELAY_MS == 1500

NoTimers == <<>>

\* the requestSync of an effect mounted at time t, in its delay; isCleanedUp
\* is the flag of that effect's closure
PendingTimer(t) == <<[since |-> t, isCleanedUp |-> FALSE]>>

\* a requestSync that goes on without waiting
WbSyncDue_NoDelay(p) == now

\* the earliest time at which the oldest requestSync of p can resume
WbSyncDue(p) ==
    IF now >= Head(wbTimer[p]).since + WB_SYNC_DELAY_MS
    THEN now
    ELSE Head(wbTimer[p]).since + WB_SYNC_DELAY_MS

\* requestSync, resuming after its 1500 ms delay: skipped when the effect was
\* cleaned up or the room is not connected
RequestSync(p, ok) ==
    /\ wbTimer[p] # NoTimers
    /\ now' = WbSyncDue(p)
    /\ wbTimer' = [wbTimer EXCEPT ![p] = Tail(@)]
    /\ LET skip == Head(wbTimer[p]).isCleanedUp \/ roomState[p] # "connected"
           out == IF skip THEN <<>> ELSE <<SyncRequestMsg>>
       IN  /\ wbNet' = WbPublish(wbNet, p, out, ok)
           /\ wbEvent' = Event("requestSync", p, p, SyncRequestMsg, strokes[p],
                               out, ok)
    /\ UNCHANGED <<strokes, strokesRef, wbListening, roomState, nextId, historyVars, erased>>
    /\ UNCHANGED <<docVars, cursors, floatingReactions, reactionSeq, loopEvent>>
    /\ UNCHANGED <<lastBroadcastRef, pendingPositionRef, animationFrameRef, rafQueue,
                   presenceNet, cursorSent, presenceEvent>>

\* the whiteboard data effect runs: handleData is registered on the room and
\* requestSync starts its delay
WbMount(p) ==
    /\ ~wbListening[p]
    /\ wbListening' = [wbListening EXCEPT ![p] = TRUE]
    /\ wbTimer' = [wbTimer EXCEPT ![p] = @ \o PendingTimer(now)]
    /\ wbEvent' = Event("mount", p, p, ClearMsg, strokes[p], <<>>, TRUE)
    /\ UNCHANGED <<strokes, strokesRef, roomState, wbNet, nextId, historyVars, erased, nonWb>>

\* the cleanup of that effect: isCleanedUp = true, handleData taken off
WbCleanup(p) ==
    /\ wbListening[p]
    /\ wbListening' = [wbListening EXCEPT ![p] = FALSE]
    /\ wbTimer' = [wbTimer EXCEPT ![p] =
            [i \in DOMAIN @ |-> [@[i] EXCEPT !.isCleanedUp = TRUE]]]
    /\ wbEvent' = Event("cleanup", p, p, ClearMsg, strokes[p], <<>>, TRUE)
    /\ UNCHANGED <<strokes, strokesRef, roomState, wbNet, nextId, historyVars, erased, nonWb>>

\* ------------------------------------------------------------------------
\* Document sync bridge (LiveKitYjsProvider)
\* ------------------------------------------------------------------------

DOC_TOPIC == "code-editor"

AWARENESS_TOPIC == "code-awareness"

SYNC_REQUEST_TOPIC == "code-sync-request"

SYNC_RESPONSE_TOPIC == "code-sync-response"

\* setTimeout(r, 1000) in requestSync
SYNC_DELAY_MS == 1000

\* a packet of the bridge: a document topic carries a set of updates (a delta
\* or the full state), the awareness topic the clocks of the changed clients
DocPacket(topic, update, states) ==
    [topic |-> topic, update |-> update, states |-> states]

EmptyDocNet == [s \in Participants |-> [r \in Participants |-> <<>>]]

\* a provider after its constructor
NewBridge ==
    [room |-> None, localParticipant |-> None, connected |-> FALSE, synced |-> FALSE,
     listeners |-> 0, destroyed |-> FALSE]

\* a provider connected to the room as p, its handler registered once
ConnectedBridge(p, synced) ==
    [room |-> "room", localParticipant |-> p, connected |-> TRUE, synced |-> synced,
     listeners |-> 1, destroyed |-> FALSE]

NewTally == [connects |-> 0, requests |-> 0, waited |-> SYNC_DELAY_MS]

NewLifetime == [applied |-> 0, offered |-> {}]

NoDocEvent ==
    [op |-> "init", at |-> None, from |-> None, topic |-> "", update |-> {},
     docBefore |-> {}, syncedBefore |-> FALSE, published |-> <<>>,
     bridgeBefore |-> NewBridge, timersBefore |-> <<>>,
     awarenessBefore |-> [c \in Participants |-> 0], outcome |-> "none",
     ready |-> FALSE]

\* this.room?.state
BridgeRoomState(p) ==
    IF bridge[p].room = None THEN Undefined ELSE roomState[p]

\* the guards in front of every publish of the bridge
BridgeReady(p) ==
    /\ bridge[p].localParticipant # None
    /\ bridge[p].connected
    /\ BridgeRoomState(p) = "connected"

\* the step taken at p, with the document and the flag it started from
DocEvent(op, p, sender, packet, out, ok) ==
    [op |-> op, at |-> p, from |-> sender, topic |-> packet.topic,
     update |-> packet.update, docBefore |-> ydoc[p],
     syncedBefore |-> bridge[p].synced,
     published |-> IF ok THEN out ELSE <<>>,
     bridgeBefore |-> bridge[p], timersBefore |-> syncTimers[p],
     awarenessBefore |-> awareness[p], outcome |-> PublishOutcome(out, ok),
     ready |-> BridgeReady(p)]

\* localParticipant.publishData(data, {topic}): the room forwards the packet
\* to every other participant connected to it; a failed publish (ok = FALSE)
\* sends nothing and the error is logged
DocPublish(net, p, packets, ok) ==
    [s \in Participants |-> [r \in Participants |->
        IF s = p /\ r # p /\ roomState[r] = "connected" /\ ok
        THEN net[s][r] \o packets
        ELSE net[s][r]]]

\* a handleLocalUpdate that does not look at the origin
HandleLocalUpdate_NoOriginCheck(p, update, origin) ==
    IF ~BridgeReady(p) THEN <<>>
    ELSE <<DocPacket(DOC_TOPIC, update, {})>>

\* handleLocalUpdate(update, origin): what the 'update' listener publishes
HandleLocalUpdate(p, update, origin) ==
    IF origin = "bridge" THEN <<>>
    ELSE IF ~BridgeReady(p) THEN <<>>
    ELSE <<DocPacket(DOC_TOPIC, update, {})>>

\* an 'update' listener that destroy() leaves registered
UpdateListener_Kept(p, update, origin) == HandleLocalUpdate(p, update, origin)

\* doc.on('update', this.handleLocalUpdate), until destroy() takes it off
UpdateListener(p, update, origin) ==
    IF bridge[p].destroyed THEN <<>> ELSE HandleLocalUpdate(p, update, origin)

\* Y.applyUpdate(doc, payload, origin): the document's 'update' listener runs
\* with the new content when the payload changes the document
ApplyUpdateEvent(p, update, origin) ==
    IF update \subseteq ydoc[p] THEN <<>>
    ELSE UpdateListener(p, update \ ydoc[p], origin)

\* a sendFullState that, like the whiteboard, answers only with content
SendFullState_NonEmptyOnly(p) ==
    IF ~BridgeReady(p) \/ ydoc[p] = {} THEN <<>>
    ELSE <<DocPacket(SYNC_RESPONSE_TOPIC, ydoc[p], {})>>

\* sendFullState
SendFullState(p) ==
    IF ~BridgeReady(p) THEN <<>>
    ELSE <<DocPacket(SYNC_RESPONSE_TOPIC, ydoc[p], {})>>

\* a bridge that applies every sync-response
ShouldApplySyncResponse_Always(p) == TRUE

\* if (!this.synced)
ShouldApplySyncResponse(p) == ~bridge[p].synced

\* the awareness entries of a packet that are newer than what p holds
NewerStates(p, states) == {e \in states : awareness[p][e.client] < e.clock}

\* handleAwarenessUpdate({added, updated, removed})
HandleAwarenessUpdate(p, changed) ==
    IF ~BridgeReady(p) \/ changed = {} THEN <<>>
    ELSE <<DocPacket(AWARENESS_TOPIC, {}, changed)>>

\* awareness.on('update', this.handleAwarenessUpdate), until destroy() takes
\* it off
AwarenessListener(p, changed) ==
    IF bridge[p].destroyed THEN <<>> ELSE HandleAwarenessUpdate(p, changed)

\* handleDataReceived(payload, participant, kind, topic) at p; net is the
\* traffic once the packet is taken off the wire
HandleDataReceived(p, sender, packet, net, ok) ==
    LET own == sender = bridge[p].localParticipant
        snapshot == ~own /\ packet.topic = SYNC_RESPONSE_TOPIC
        applies == \/ ~own /\ packet.topic = DOC_TOPIC
                   \/ snapshot /\ ShouldApplySyncResponse(p)
        newer == IF ~own /\ packet.topic = AWARENESS_TOPIC
                 THEN NewerStates(p, packet.states) ELSE {}
        out == (IF applies THEN ApplyUpdateEvent(p, packet.update, "bridge") ELSE <<>>)
               \o AwarenessListener(p, newer)
               \o (IF ~own /\ packet.topic = SYNC_REQUEST_TOPIC
                   THEN SendFullState(p) ELSE <<>>)
    IN  /\ ydoc' = [ydoc EXCEPT ![p] = IF applies THEN @ \cup packet.update ELSE @]
        /\ bridge' = [bridge EXCEPT ![p].synced =
                IF snapshot /\ ShouldApplySyncResponse(p) THEN TRUE ELSE @]
        /\ awareness' = [awareness EXCEPT ![p] =
                [c \in Participants |->
                    IF \E e \in newer : e.client = c
                    THEN (CHOOSE e \in newer : e.client = c /\
                            \A f \in newer : f.client = c => f.clock <= e.clock).clock
                    ELSE @[c]]]
        /\ lifetime' = [lifetime EXCEPT ![p] =
                IF snapshot
                THEN [applied |-> IF ShouldApplySyncResponse(p) THEN @.applied + 1
                                  ELSE @.applied,
                      offered |-> @.offered \cup packet.update]
                ELSE @]
        /\ docNet' = DocPublish(net, p, out, ok)
        /\ docEvent' = DocEvent("handleDataReceived", p, sender, packet,
                                out, ok)

\* RoomEvent.DataReceived: the packet at the head of the channel from s
\* reaches r; a bridge that is not connected has no listener on the room
DeliverDoc(s, r, ok) ==
    /\ docNet[s][r] # <<>>
    /\ LET packet == Head(docNet[s][r])
           rest == [docNet EXCEPT ![s][r] = Tail(docNet[s][r])]
       IN  IF bridge[r].listeners > 0
           THEN HandleDataReceived(r, s, packet, rest, ok)
           ELSE /\ docNet' = rest
                /\ docEvent' = DocEvent("dropped", r, s, packet, <<>>, TRUE)
                /\ UNCHANGED <<ydoc, bridge, awareness, lifetime>>
    /\ UNCHANGED <<syncTimers, nextUpdate, disconnects, tally, nonDoc>>

\* a connect() without its guard
AlreadyConnected_Never(p) == FALSE

\* if (this.connected)
AlreadyConnected(p) == bridge[p].connected

\* connect(room, localParticipant): a no-op when already connected, otherwise
\* the listener is registered and requestSync starts its 1000 ms delay
Connect(p) ==
    /\ IF AlreadyConnected(p)
       THEN UNCHANGED <<bridge, syncTimers, lifetime, tally>>
       ELSE /\ bridge' = [bridge EXCEPT ![p] =
                    [@ EXCEPT !.room = "room", !.localParticipant = p,
                              !.connected = TRUE, !.listeners = @ + 1]]
            /\ syncTimers' = [syncTimers EXCEPT ![p] = Append(@, now)]
            /\ lifetime' = [lifetime EXCEPT ![p] = NewLifetime]
            /\ tally' = [tally EXCEPT ![p].connects = @ + 1]
    /\ docEvent' = DocEvent("connect", p, p, DocPacket("", {}, {}), <<>>, TRUE)
    /\ UNCHANGED <<ydoc, awareness, docNet, nextUpdate, disconnects, nonDoc>>

\* a disconnect() that leaves its handler on the room
Disconnect_KeepsListener(p) ==
    /\ IF ~bridge[p].connected
       THEN UNCHANGED <<bridge, disconnects>>
       ELSE /\ bridge' = [bridge EXCEPT ![p] =
                    [NewBridge EXCEPT !.listeners = bridge[p].listeners,
                                      !.destroyed = bridge[p].destroyed]]
            /\ disconnects' = disconnects + 1
    /\ docEvent' = DocEvent("disconnect", p, p, DocPacket("", {}, {}), <<>>, TRUE)
    /\ UNCHANGED <<ydoc, awareness, syncTimers, docNet, nextUpdate, lifetime, tally, nonDoc>>

\* disconnect()
Disconnect(p) ==
    /\ IF ~bridge[p].connected
       THEN UNCHANGED <<bridge, disconnects>>
       ELSE /\ bridge' = [bridge EXCEPT ![p] =
                    [NewBridge EXCEPT !.listeners =
                        IF bridge[p].room # None /\ bridge[p].listeners > 0
                        THEN bridge[p].listeners - 1 ELSE bridge[p].listeners,
                                      !.destroyed = bridge[p].destroyed]]
            /\ disconnects' = disconnects + 1
    /\ docEvent' = DocEvent("disconnect", p, p, DocPacket("", {}, {}), <<>>, TRUE)
    /\ UNCHANGED <<ydoc, awareness, syncTimers, docNet, nextUpdate, lifetime, tally, nonDoc>>

\* the earliest time at which the oldest requestSync of p can resume
SyncDue(p) ==
    IF syncTimers[p] = <<>> \/ now >= Head(syncTimers[p]) + SYNC_DELAY_MS
    THEN now
    ELSE Head(syncTimers[p]) + SYNC_DELAY_MS

\* requestSync resuming at time t, its 1000 ms delay over
RequestSyncAfterDelay(p, t, ok) ==
    /\ syncTimers[p] # <<>>
    /\ t >= now
    /\ t - Head(syncTimers[p]) >= SYNC_DELAY_MS
    /\ now' = t
    /\ syncTimers' = [syncTimers EXCEPT ![p] = Tail(@)]
    /\ LET packet == DocPacket(SYNC_REQUEST_TOPIC, {}, {})
           out == IF BridgeReady(p) THEN <<packet>> ELSE <<>>
       IN  /\ docNet' = DocPublish(docNet, p, out, ok)
           /\ docEvent' = DocEvent("requestSync", p, p, packet,
                                   out, ok)
           /\ tally' = [tally EXCEPT ![p] =
                    IF out # <<>>
                    THEN [@ EXCEPT !.requests = @ + 1,
                                   !.waited = t - Head(syncTimers[p])]
                    ELSE @]
    /\ UNCHANGED <<ydoc, bridge, awareness, nextUpdate, disconnects, lifetime>>
    /\ UNCHANGED <<wbOnly, roomState, uiOnly>>

\* an edit of the shared text: the document gains a new update and its
\* 'update' listener runs with the editor's transaction as origin
LocalUpdate(p, ok) ==
    /\ LET update == {nextUpdate + 1}
           out == UpdateListener(p, update, "editor")
       IN  /\ ydoc' = [ydoc EXCEPT ![p] = @ \cup update]
           /\ docNet' = DocPublish(docNet, p, out, ok)
           /\ docEvent' = DocEvent("localUpdate", p, p,
                                   DocPacket(DOC_TOPIC, update, {}),
                                   out, ok)
    /\ nextUpdate' = nextUpdate + 1
    /\ UNCHANGED <<bridge, awareness, syncTimers, disconnects, lifetime, tally, nonDoc>>

\* setAwarenessState(state): the local awareness state gets the next clock
\* and the awareness 'update' listener runs; nothing happens once the
\* awareness is destroyed, its local state being null
SetAwarenessState(p, ok) ==
    /\ LET clock == awareness[p][p] + 1
           entry == {[client |-> p, clock |-> clock]}
           out == IF bridge[p].destroyed THEN <<>> ELSE AwarenessListener(p, entry)
       IN  /\ awareness' = [awareness EXCEPT ![p][p] =
                    IF bridge[p].destroyed THEN @ ELSE clock]
           /\ docNet' = DocPublish(docNet, p, out, ok)
           /\ docEvent' = DocEvent("setAwarenessState", p, p,
                                   DocPacket(AWARENESS_TOPIC, {}, entry),
                                   out, ok)
    /\ UNCHANGED <<ydoc, bridge, syncTimers, nextUpdate, disconnects, lifetime, tally, nonDoc>>

\* destroy(): disconnect(), both 'update' listeners taken off, and
\* awareness.destroy(), which sets the local state to null under a new clock
Destroy(p) ==
    /\ bridge' = [bridge EXCEPT ![p] =
            [NewBridge EXCEPT !.listeners =
                IF bridge[p].connected /\ bridge[p].room # None /\ bridge[p].listeners > 0
                THEN bridge[p].listeners - 1 ELSE bridge[p].listeners,
                              !.destroyed = TRUE]]
    /\ disconnects' = IF bridge[p].connected THEN disconnects + 1 ELSE disconnects
    /\ awareness' = [awareness EXCEPT ![p][p] = @ + 1]
    /\ docEvent' = DocEvent("destroy", p, p, DocPacket("", {}, {}), <<>>, TRUE)
    /\ UNCHANGED <<ydoc, syncTimers, docNet, nextUpdate, lifetime, tally, nonDoc>>

\* a packet published with reliable: false is lost on the way
LoseAwareness(s, r, i) ==
    /\ i \in DOMAIN docNet[s][r]
    /\ docNet[s][r][i].topic = AWARENESS_TOPIC
    /\ docNet' = [docNet EXCEPT ![s][r] =
            SubSeq(@, 1, i - 1) \o SubSeq(@, i + 1, Len(@))]
    /\ docEvent' = DocEvent("lost", r, s, docNet[s][r][i], <<>>, TRUE)
    /\ UNCHANGED <<ydoc, bridge, awareness, syncTimers, nextUpdate, disconnects,
                   lifetime, tally, nonDoc>>

\* the bridges of a session before any use: constructed, not connected
IdleDoc ==
    /\ ydoc = [p \in Participants |-> {}]
    /\ bridge = [p \in Participants |-> NewBridge]
    /\ awareness = [p \in Participants |-> [c \in Participants |-> 0]]
    /\ syncTimers = [p \in Participants |-> <<>>]
    /\ tally = [p \in Participants |-> NewTally]
    /\ docNet = EmptyDocNet
    /\ nextUpdate = 0
    /\ disconnects = 0
    /\ lifetime = [p \in Participants |-> NewLifetime]
    /\ docEvent = NoDocEvent

\* ------------------------------------------------------------------------
\* Cursor presence (usePresence) and reactions (Reactions)
\* ------------------------------------------------------------------------

PRESENCE_TOPIC == "cursor-presence"

REACTION_TOPIC == "reactions"

\* the first two entries of REACTIONS
Emojis == {"thumbs-up", "heart"}

\* cursor coordinates, normalised to the container
Coordinates == {0, 1}

\* 20 + Math.random() * 60, the ends of the range
ReactionXs == {20, 79}

\* charCodeAt(0) of a one-letter identity
CharCode(identity) ==
    CASE identity = "A" -> 65 [] identity = "B" -> 66 [] identity = "C" -> 67

\* getParticipantColor: the index into CURSOR_COLORS of an identity of one
\* character (hash = charCode + ((0 << 5) - 0))
GetParticipantColor(identity) == CharCode(identity) % CursorColors

\* the entry of an identity that has no key in the cursors map
NoCursor == [x |-> 0, y |-> 0, identity |-> None, color |-> 0, timestamp |-> 0]

NoCursors == [p \in Participants |-> [q \in Participants |-> NoCursor]]

NoReactions == [p \in Participants |-> <<>>]

NoLoop == [handler |-> "none", at |-> None, before |-> <<>>]

\* everything a participant's handlers keep, and everything in flight
LocalState(p) ==
    <<strokes[p], strokesRef[p], ydoc[p], bridge[p], awareness[p], cursors[p],
      floatingReactions[p], wbNet, docNet>>

\* a handler ran at p on a packet tagged with p's own identity
LoopEvent(handler, p) ==
    [handler |-> handler, at |-> p, before |-> LocalState(p)]

\* BROADCAST_INTERVAL_MS
BROADCAST_INTERVAL_MS == 33

\* CURSOR_STALE_MS
CURSOR_STALE_MS == 3000

\* the period of the stale cursor sweep: setInterval(..., 1000)
SWEEP_INTERVAL_MS == 1000

\* pendingPositionRef.current = null
NoPosition == [x |-> -1, y |-> -1]

\* encoder.encode(JSON.stringify(pos))
EncodeCursor(pos) == [wellFormed |-> TRUE, x |-> pos.x, y |-> pos.y]

\* JSON.parse(decoder.decode(payload)) as CursorPosition
DecodeCursor(payload) == [x |-> payload.x, y |-> payload.y]

\* bytes on the presence topic that are not a JSON text
NotJsonCursor == [wellFormed |-> FALSE, x |-> 0, y |-> 0]

NoPresenceEvent ==
    [op |-> "init", at |-> None, from |-> None,
     cursorsBefore |-> [q \in Participants |-> NoCursor],
     published |-> <<>>, callbacks |-> 0, time |-> 0, prevSent |-> -1,
     errors |-> 0]

\* the step taken by usePresence at p: the cursors it started from, what it
\* published, the animation-frame callbacks it ran, the clock, the clock at
\* p's previous cursor message, and the parse errors caught so far
PresenceEvent(op, p, sender, published, callbacks) ==
    [op |-> op, at |-> p, from |-> sender, cursorsBefore |-> cursors[p],
     published |-> published, callbacks |-> callbacks, time |-> now,
     prevSent |-> cursorSent[p],
     errors |-> presenceEvent.errors + (IF op = "caught" THEN 1 ELSE 0)]

\* a catch block that removes the sender's cursor
OnCursorParseError_Removes(map, sender) == [map EXCEPT ![sender] = NoCursor]

\* catch (err) { console.error('[usePresence] Failed to parse cursor data') }
OnCursorParseError(map, sender) == map

\* usePresence handleData(payload, participant, kind, topic) at p
PresenceHandleData(p, sender, topic, payload) ==
    cursors' = [cursors EXCEPT ![p] =
        IF topic # PRESENCE_TOPIC THEN @
        ELSE IF sender = p THEN @
        ELSE IF JsonParseThrows(payload) THEN OnCursorParseError(@, sender)
        ELSE LET data == DecodeCursor(payload)
             IN  [@ EXCEPT ![sender] =
                    [x |-> data.x, y |-> data.y, identity |-> sender,
                     color |-> GetParticipantColor(sender), timestamp |-> now]]]

\* Reactions handleData(payload, participant, kind, topic) at p: the
\* reaction gets a fresh id and a random horizontal position x
ReactionsHandleData(p, sender, topic, data, x) ==
    IF topic # REACTION_TOPIC
    THEN UNCHANGED <<floatingReactions, reactionSeq>>
    ELSE /\ floatingReactions' = [floatingReactions EXCEPT ![p] =
                Append(@, [id |-> reactionSeq + 1, emoji |-> data.emoji,
                           identity |-> sender, x |-> x])]
         /\ reactionSeq' = reactionSeq + 1

RECURSIVE FilterOutReaction(_, _)
\* prev.filter(r => r.id !== reaction.id)
FilterOutReaction(list, id) ==
    IF list = <<>> THEN <<>>
    ELSE IF Head(list).id # id
         THEN <<Head(list)>> \o FilterOutReaction(Tail(list), id)
         ELSE FilterOutReaction(Tail(list), id)

\* the 2500 ms timer of a shown reaction
ReactionTimeout(p, id) ==
    /\ \E i \in DOMAIN floatingReactions[p] : floatingReactions[p][i].id = id
    /\ floatingReactions' = [floatingReactions EXCEPT ![p] = FilterOutReaction(@, id)]
    /\ loopEvent' = NoLoop
    /\ UNCHANGED <<cursors, reactionSeq, now, presenceVars, wbVars, docVars>>

\* RoomEvent.DataReceived at p with p's own identity as the sender, on the
\* cursor presence topic
LoopbackPresence(p, data) ==
    /\ PresenceHandleData(p, p, PRESENCE_TOPIC, EncodeCursor(data))
    /\ loopEvent' = LoopEvent("presence", p)
    /\ UNCHANGED <<floatingReactions, reactionSeq, now, presenceVars, wbVars, docVars>>

\* the same on the reactions topic
LoopbackReaction(p, data, x) ==
    /\ ReactionsHandleData(p, p, REACTION_TOPIC, data, x)
    /\ loopEvent' = LoopEvent("reactions", p)
    /\ UNCHANGED <<cursors, now, presenceVars, wbVars, docVars>>

\* the same on the whiteboard topic
LoopbackWhiteboard(p, msg) ==
    /\ wbListening[p]
    /\ HandleData(p, p, EncodeWb(msg), wbNet, TRUE)
    /\ loopEvent' = LoopEvent("whiteboard", p)
    /\ UNCHANGED <<strokesRef, wbListening, wbTimer, roomState, nextId, historyVars, erased, docVars>>
    /\ UNCHANGED <<cursors, floatingReactions, reactionSeq, now, presenceVars>>

\* the same on a topic of the document bridge
LoopbackBridge(p, packet) ==
    /\ bridge[p].connected
    /\ HandleDataReceived(p, p, packet, docNet, TRUE)
    /\ loopEvent' = LoopEvent("bridge", p)
    /\ UNCHANGED <<syncTimers, nextUpdate, disconnects, tally, wbVars>>
    /\ UNCHANGED <<cursors, floatingReactions, reactionSeq, now, presenceVars>>

\* usePresence after its mount: nothing broadcast, no frame requested
IdlePresence ==
    /\ lastBroadcastRef = [p \in Participants |-> 0]
    /\ pendingPositionRef = [p \in Participants |-> NoPosition]
    /\ animationFrameRef = [p \in Participants |-> 0]
    /\ rafQueue = [p \in Participants |-> 0]
    /\ presenceNet = EmptyNet
    /\ cursorSent = [p \in Participants |-> -1]
    /\ presenceEvent = NoPresenceEvent

\* no presence hook and no reactions overlay has handled anything
IdleUi ==
    /\ IdlePresence
    /\ cursors = NoCursors
    /\ floatingReactions = NoReactions
    /\ reactionSeq = 0
    /\ now = 0
    /\ loopEvent = NoLoop

\* ------------------------------------------------------------------------
\* Whiteboard sessions
\* ------------------------------------------------------------------------

RECURSIVE SumOver(_, _)
SumOver(f, set) ==
    IF set = {} THEN 0
    ELSE LET x == CHOOSE y \in set : TRUE IN f[x] + SumOver(f, set \ {x})

\* the strokes a board may hold at the start of a scenario, and the lists of
\* them with pairwise different ids
StartStrokes == {LegacyStroke(NewElement(i, t)) : i \in 1..MaxLen, t \in DrawTools}

StartLists ==
    {l \in UNION {[1..n -> StartStrokes] : n \in 0..MaxLen} :
        \A i, j \in DOMAIN l : i # j => l[i].id # l[j].id}

\* a session in which the participants of `here` are in the room with the
\* whiteboard effect mounted, holding the rendered lists `lists`; `joining`
\* are those whose sync delay is still running; `ids` ids are in use
WbSession(here, lists, joining, ids) ==
    /\ strokes = [p \in Participants |-> IF p \in here THEN lists[p] ELSE <<>>]
    /\ strokesRef = strokes
    /\ wbListening = [p \in Participants |-> p \in here]
    /\ wbTimer = [p \in Participants |-> IF p \in joining THEN PendingTimer(0) ELSE NoTimers]
    /\ roomState = [p \in Participants |-> IF p \in here THEN "connected" ELSE "disconnected"]
    /\ wbNet = EmptyNet
    /\ nextId = ids
    /\ erased = [p \in Participants |-> 0]
    /\ wbEvent = NoEvent
    /\ IdleHistory
    /\ IdleDoc
    /\ IdleUi

EmptyBoards == [p \in Participants |-> <<>>]

\* two participants on an empty board: A joined earlier, the sync delay of B
\* is still running
InitWb == WbSession(Pair, EmptyBoards, {"B"}, 0)

NextWb ==
    \/ \E p \in Pair : nextId < MaxAdds /\ HandleAddStroke(p, "pen", TRUE)
    \/ \E p \in Pair, id \in 1..MaxAdds :
          SumOver(erased, Pair) < MaxErase /\ HandleRemoveStroke(p, id, TRUE)
    \/ \E p \in Pair : SumOver(erased, Pair) < MaxErase /\ HandleClear(p, TRUE)
    \/ \E p \in Pair : StrokesRefEffect(p)
    \/ \E p \in Pair : RequestSync(p, TRUE)
    \/ \E s \in Pair, r \in Pair : DeliverWb(s, r, TRUE)

SpecWb == InitWb /\ [][NextWb]_vars

\* the participants of the three-party session that have just joined
Joiners3 == {"C"}

\* three participants on an empty board: A and B joined earlier, the sync
\* delay of C is still running
InitWb3 == WbSession(Participants, EmptyBoards, Joiners3, 0)

NextWb3 ==
    \/ \E p \in Participants : nextId < MaxAdds3 /\ HandleAddStroke(p, "pen", TRUE)
    \/ \E p \in Participants, id \in 1..MaxAdds3 :
          SumOver(erased, Participants) < MaxErase3 /\ HandleRemoveStroke(p, id, TRUE)
    \/ \E p \in Participants :
          SumOver(erased, Participants) < MaxErase3 /\ HandleClear(p, TRUE)
    \/ \E p \in Participants : StrokesRefEffect(p)
    \/ \E p \in Participants : RequestSync(p, TRUE)
    \/ \E s \in Participants, r \in Participants : DeliverWb(s, r, TRUE)

SpecWb3 == InitWb3 /\ [][NextWb3]_vars

\* C1: in every reachable state, at every participant, no two elements of
\* the whiteboard list share an id (three participants, per-sender FIFO)
C1_UniqueIds ==
    \A p \in Participants :
        \A i, j \in DOMAIN strokes[p] : i # j => strokes[p][i].id # strokes[p][j].id

C26_OnlyRequesterReplaced ==
    (/\ wbEvent.op = "handleData"
     /\ wbEvent.msg.type = "sync-response"
     /\ wbEvent.at \notin Joiners3)
    => strokes[wbEvent.at] = wbEvent.before

\* ------------------------------------------------------------------------
\* Late joiner: A (and C, when present) holds the rendered list l, B has just
\* joined with an empty board and its sync delay is running; nobody draws
\* ------------------------------------------------------------------------

InitJoin ==
    \E l \in StartLists \ {<<>>}, here \in {Pair, Participants} :
        WbSession(here, [p \in Participants |-> IF p = "B" THEN <<>> ELSE l],
                  {"B"}, MaxLen)

NextJoin ==
    \/ RequestSync("B", TRUE)
    \/ \E s \in Participants, r \in Participants : DeliverWb(s, r, TRUE)
    \/ \E p \in Participants : StrokesRefEffect(p)

SpecJoin == InitJoin /\ [][NextJoin]_vars

\* C8: once A's answer to B's sync-request has been handled by B, with no
\* whiteboard operation in between, B's list equals A's list L, elements and
\* order
C8_LateJoinerGetsList ==
    (wbEvent.op = "handleData" /\ wbEvent.at = "B" /\ wbEvent.from = "A"
        /\ wbEvent.msg.type = "sync-response")
    => /\ strokes["B"] = strokes["A"]
       /\ strokes["A"] # <<>>

\* the case of C8: B, empty before, has handled A's sync-response
C8_Witness ==
    /\ wbEvent.op = "handleData" /\ wbEvent.at = "B" /\ wbEvent.from = "A"
    /\ wbEvent.msg.type = "sync-response"
    /\ wbEvent.before = <<>>
    /\ Len(strokes["B"]) = MaxLen
    /\ strokes["B"] = strokes["A"]

\* ------------------------------------------------------------------------
\* Mirror: A and B start from the same list; A draws, erases and clears, B
\* applies the corresponding messages
\* ------------------------------------------------------------------------

InitMirror ==
    \E l \in StartLists :
        WbSession(Pair, [p \in Participants |-> l], {}, MaxLen)

\* the local operations A has performed so far
MirrorOps == (nextId - MaxLen) + erased["A"]

NextMirror ==
    \/ \E tool \in DrawTools :
          MirrorOps < MaxAdds /\ HandleAddStroke("A", tool, TRUE)
    \/ \E id \in 1..(MaxLen + MaxAdds) :
          MirrorOps < MaxAdds /\ HandleRemoveStroke("A", id, TRUE)
    \/ MirrorOps < MaxAdds /\ HandleClear("A", TRUE)
    \/ DeliverWb("A", "B", TRUE)
    \/ \E p \in Pair : StrokesRefEffect(p)

SpecMirror == InitMirror /\ [][NextMirror]_vars

\* C9: starting from the same list, the operations A applied locally and B
\* applied from the messages, in the same order and none lost, leave
\* identical lists
C9_LocalRemoteSame ==
    wbNet["A"]["B"] = <<>> => strokes["B"] = strokes["A"]

\* the case of C9: A has added and erased, B has applied the last message and
\* both hold the same non-empty list
C9_Witness ==
    /\ wbNet["A"]["B"] = <<>>
    /\ nextId > MaxLen
    /\ erased["A"] > 0
    /\ wbEvent.op = "handleData" /\ wbEvent.at = "B"
    /\ strokes["B"] = strokes["A"]
    /\ strokes["B"] # <<>>

\* ------------------------------------------------------------------------
\* Concurrent clear: A and B each clear once before either clear message is
\* delivered; C, when present, only listens
\* ------------------------------------------------------------------------

InitClear ==
    \E la \in StartLists, lb \in StartLists, here \in {Pair, Participants} :
        WbSession(here, [p \in Participants |-> IF p = "B" THEN lb ELSE la],
                  {}, MaxLen)

BothCleared == \A p \in Pair : erased[p] = 1

NextClear ==
    \/ \E p \in Pair : erased[p] = 0 /\ HandleClear(p, TRUE)
    \/ \E s \in Participants, r \in Participants : BothCleared /\ DeliverWb(s, r, TRUE)
    \/ \E p \in Participants : StrokesRefEffect(p)

SpecClear == InitClear /\ [][NextClear]_vars

\* C10: after two concurrent local clears, once both clear messages are
\* delivered the list is empty at both participants (and at a third that
\* only received them)
C10_ConcurrentClearEmpty ==
    (BothCleared /\ wbNet = EmptyNet)
    => \A p \in Participants : strokes[p] = <<>>

\* the case of C10: both cleared, both messages were in flight together and
\* the last of them has been handled
C10_Witness ==
    /\ BothCleared /\ wbNet = EmptyNet
    /\ wbEvent.op = "handleData" /\ wbEvent.msg.type = "clear"
    /\ wbEvent.at \in Pair
    /\ wbListening["C"] /\ strokes["C"] = <<>>

\* ------------------------------------------------------------------------
\* Document bridge sessions
\* ------------------------------------------------------------------------

\* no whiteboard is mounted
IdleWb ==
    /\ strokes = EmptyBoards
    /\ strokesRef = EmptyBoards
    /\ wbListening = [p \in Participants |-> FALSE]
    /\ wbTimer = [p \in Participants |-> NoTimers]
    /\ wbNet = EmptyNet
    /\ nextId = 0
    /\ erased = [p \in Participants |-> 0]
    /\ wbEvent = NoEvent
    /\ IdleHistory

\* a session in which the participants of `here` are in the room with an empty
\* document each; the bridges of `established` connected earlier and their
\* sync delay has passed, the others are constructed and not connected
DocSession(here, established) ==
    /\ roomState = [p \in Participants |->
                        IF p \in here THEN "connected" ELSE "disconnected"]
    /\ IdleWb
    /\ ydoc = [p \in Participants |-> {}]
    /\ bridge = [p \in Participants |->
                    IF p \in established
                    THEN ConnectedBridge(p, FALSE)
                    ELSE NewBridge]
    /\ awareness = [p \in Participants |-> [c \in Participants |-> 0]]
    /\ syncTimers = [p \in Participants |-> <<>>]
    /\ tally = [p \in Participants |-> NewTally]
    /\ docNet = EmptyDocNet
    /\ nextUpdate = 0
    /\ disconnects = 0
    /\ lifetime = [p \in Participants |-> NewLifetime]
    /\ docEvent = NoDocEvent
    /\ IdleUi

\* two participants: A opened the editor earlier, B has not connected yet
InitDoc == DocSession(Pair, {"A"})

NextDoc ==
    \/ \E p \in Pair : Connect(p)
    \/ \E p \in Pair : disconnects < MaxDisconnects /\ Disconnect(p)
    \/ \E p \in Pair : nextUpdate < MaxEdits /\ LocalUpdate(p, TRUE)
    \/ \E p \in Pair : RequestSyncAfterDelay(p, SyncDue(p), TRUE)
    \/ \E s \in Pair, r \in Pair : DeliverDoc(s, r, TRUE)

SpecDoc == InitDoc /\ [][NextDoc]_vars

\* three participants in the room: A opened the editor earlier, B and C have
\* not connected yet; edits are made in connected editors and no bridge
\* disconnects
InitDoc3 == DocSession(Participants, {"A"})

NextDoc3 ==
    \/ \E p \in Participants : ~bridge[p].connected /\ Connect(p)
    \/ \E p \in Participants :
          nextUpdate < MaxEdits3 /\ bridge[p].connected /\ LocalUpdate(p, TRUE)
    \/ \E p \in Participants : RequestSyncAfterDelay(p, SyncDue(p), TRUE)
    \/ \E s \in Participants, r \in Participants : DeliverDoc(s, r, TRUE)

SpecDoc3 == InitDoc3 /\ [][NextDoc3]_vars

\* nothing is in flight and no sync delay is running, with every bridge
\* connected to a connected room
DocQuiescent ==
    /\ docNet = EmptyDocNet
    /\ \A p \in Participants : syncTimers[p] = <<>> /\ BridgeReady(p)

\* C2: with no failed publish and every edit made on a ready channel, once
\* no message is in flight and no sync delay is pending, all connected
\* participants' documents hold the same set of updates
C2_DocsConverge ==
    DocQuiescent => \A p, q \in Participants : ydoc[p] = ydoc[q]

\* C3: in one connection lifetime at most one sync-response is applied; a
\* sync-response handled while synced is set leaves the document and the
\* flag unchanged; disconnect() leaves the flag reset
C3_OneSnapshotPerLifetime ==
    /\ \A p \in Participants : lifetime[p].applied <= 1
    /\ \A p \in Participants : ~bridge[p].connected => ~bridge[p].synced
    /\ (/\ docEvent.op = "handleDataReceived"
        /\ docEvent.topic = SYNC_RESPONSE_TOPIC
        /\ docEvent.syncedBefore)
       => /\ ydoc[docEvent.at] = docEvent.docBefore
          /\ bridge[docEvent.at].synced
    /\ docEvent.op = "disconnect" => ~bridge[docEvent.at].synced

\* a second sync-response of one lifetime was handled and ignored
C3_Witness ==
    /\ docEvent.op = "handleDataReceived"
    /\ docEvent.topic = SYNC_RESPONSE_TOPIC
    /\ docEvent.from # docEvent.at
    /\ docEvent.syncedBefore
    /\ lifetime[docEvent.at].applied = 1
    /\ disconnects > 0

\* C4: every update that a sync-response handled in the current lifetime
\* carried is in the document
C4_NoSnapshotUpdateMissing ==
    \A p \in Participants :
        bridge[p].connected => lifetime[p].offered \subseteq ydoc[p]

\* C5: handling a delta or a snapshot from a remote identity publishes
\* nothing on the document-update topic; a publish on that topic is made by a
\* local edit and carries exactly the update the edit added
C5_NoEcho ==
    /\ docEvent.op = "handleDataReceived"
       => \A i \in DOMAIN docEvent.published :
              docEvent.published[i].topic # DOC_TOPIC
    /\ (\E i \in DOMAIN docEvent.published :
              docEvent.published[i].topic = DOC_TOPIC)
       => /\ docEvent.op = "localUpdate"
          /\ Len(docEvent.published) = 1
          /\ docEvent.published[1].update = ydoc[docEvent.at] \ docEvent.docBefore
          /\ Cardinality(docEvent.published[1].update) = 1

\* a delta or a snapshot from a remote identity changed the document of a
\* bridge that is ready to publish, and nothing was published
C5_Witness ==
    /\ docEvent.op = "handleDataReceived"
    /\ docEvent.topic \in {DOC_TOPIC, SYNC_RESPONSE_TOPIC}
    /\ docEvent.from # docEvent.at
    /\ ydoc[docEvent.at] # docEvent.docBefore
    /\ BridgeReady(docEvent.at)
    /\ docEvent.published = <<>>

\* ------------------------------------------------------------------------
\* Loopback session
\* ------------------------------------------------------------------------

\* the empty board and a board of one pen stroke
ShortLists == {<<>>, <<LegacyStroke(NewElement(1, "pen"))>>}

\* A and B in the room, each with the whiteboard mounted and the editor
\* connected; both hold the same board and the same document, B may have
\* taken its snapshot already, and B's cursor may be shown at A
InitLoop ==
    /\ \E l \in ShortLists :
          /\ strokes = [p \in Participants |-> IF p \in Pair THEN l ELSE <<>>]
          /\ nextId = Len(l)
    /\ strokesRef = strokes
    /\ wbListening = [p \in Participants |-> p \in Pair]
    /\ wbTimer = [p \in Participants |-> NoTimers]
    /\ roomState = [p \in Participants |->
                        IF p \in Pair THEN "connected" ELSE "disconnected"]
    /\ wbNet = EmptyNet
    /\ erased = [p \in Participants |-> 0]
    /\ wbEvent = NoEvent
    /\ IdleHistory
    /\ \E d \in {{}, 1..MaxEdits} :
          /\ ydoc = [p \in Participants |-> IF p \in Pair THEN d ELSE {}]
          /\ nextUpdate = MaxEdits
    /\ \E s \in BOOLEAN :
          bridge = [p \in Participants |->
                        IF p \in Pair
                        THEN ConnectedBridge(p, s /\ p = "B")
                        ELSE NewBridge]
    /\ awareness = [p \in Participants |-> [c \in Participants |-> 0]]
    /\ syncTimers = [p \in Participants |-> <<>>]
    /\ tally = [p \in Participants |-> NewTally]
    /\ docNet = EmptyDocNet
    /\ disconnects = 0
    /\ lifetime = [p \in Participants |-> NewLifetime]
    /\ docEvent = NoDocEvent
    /\ \E shown \in BOOLEAN :
          cursors = [NoCursors EXCEPT !["A"]["B"] =
                        IF ~shown THEN NoCursor
                        ELSE [x |-> 1, y |-> 1, identity |-> "B",
                              color |-> GetParticipantColor("B"), timestamp |-> 0]]
    /\ floatingReactions = NoReactions
    /\ reactionSeq = 0
    /\ now = 0
    /\ loopEvent = NoLoop
    /\ IdlePresence

\* the packets a participant's own handlers may be handed
LoopWbMsgs ==
    {StrokeMsg(LegacyStroke(NewElement(nextId + 1, "pen"))), ClearMsg,
     SyncRequestMsg, SyncResponseMsg(<<>>)}
        \cup {RemoveMsg(i) : i \in 1..MaxLen}

LoopDocPackets ==
    {DocPacket(DOC_TOPIC, {nextUpdate + 1}, {}),
     DocPacket(SYNC_RESPONSE_TOPIC, {nextUpdate + 1}, {}),
     DocPacket(SYNC_REQUEST_TOPIC, {}, {})}
        \cup {DocPacket(AWARENESS_TOPIC, {}, {[client |-> c, clock |-> 1]}) :
                c \in Pair}

NextLoop ==
    \/ \E p \in Pair, msg \in LoopWbMsgs : LoopbackWhiteboard(p, msg)
    \/ \E p \in Pair, packet \in LoopDocPackets : LoopbackBridge(p, packet)
    \/ \E p \in Pair, x \in Coordinates, y \in Coordinates :
          LoopbackPresence(p, [x |-> x, y |-> y])
    \/ \E p \in Pair, e \in Emojis, x \in ReactionXs :
          reactionSeq < MaxReactions
          /\ LoopbackReaction(p, [emoji |-> e], x)
    \/ \E p \in Pair, id \in 1..MaxReactions : ReactionTimeout(p, id)

SpecLoop == InitLoop /\ [][NextLoop]_vars

\* C6: after a handler ran on a packet tagged with the local identity, the
\* participant's state is what it was before and nothing was published
C6_LoopbackIgnored ==
    loopEvent.handler # "none" => LocalState(loopEvent.at) = loopEvent.before

\* ------------------------------------------------------------------------
\* Whiteboard sync-request
\* ------------------------------------------------------------------------

\* C11: a whiteboard sync-request from a remote identity is answered with
\* exactly one sync-response carrying the list as it is when the request is
\* handled if that list is non-empty and the room is connected, and with
\* nothing otherwise
C11_SyncRequestAnswered ==
    (wbEvent.op = "handleData" /\ wbEvent.from # wbEvent.at
        /\ wbEvent.msg.type = "sync-request")
    => wbEvent.published =
          IF wbEvent.before # <<>> /\ roomState[wbEvent.at] = "connected"
          THEN <<SyncResponseMsg(wbEvent.before)>>
          ELSE <<>>

\* ------------------------------------------------------------------------
\* Document sync-request
\* ------------------------------------------------------------------------

RECURSIVE CountTopic(_, _)
\* the packets of a topic in a channel
CountTopic(packets, topic) ==
    IF packets = <<>> THEN 0
    ELSE (IF Head(packets).topic = topic THEN 1 ELSE 0)
         + CountTopic(Tail(packets), topic)

\* C12: a document sync-request from a remote identity, handled by a bridge
\* that is connected to a connected room, makes it publish exactly one
\* sync-response packet, which carries the whole document, empty or not,
\* synced or not
C12_EveryRequestAnswered ==
    (/\ docEvent.op = "handleDataReceived"
     /\ docEvent.topic = SYNC_REQUEST_TOPIC
     /\ docEvent.from # docEvent.at
     /\ BridgeReady(docEvent.at))
    => docEvent.published =
          <<DocPacket(SYNC_RESPONSE_TOPIC, docEvent.docBefore, {})>>

\* a second request of the same requester was answered while the first answer
\* was still in flight, by a bridge with an empty document that never synced
C12_Witness ==
    /\ docEvent.op = "handleDataReceived"
    /\ docEvent.topic = SYNC_REQUEST_TOPIC
    /\ docEvent.from # docEvent.at
    /\ docEvent.docBefore = {}
    /\ ~docEvent.syncedBefore
    /\ Len(docEvent.published) = 1
    /\ CountTopic(docNet[docEvent.at][docEvent.from], SYNC_RESPONSE_TOPIC) = 2

\* ------------------------------------------------------------------------
\* connect()
\* ------------------------------------------------------------------------

\* C13: connect() on a connected bridge changes neither its fields, its
\* listener registration nor its pending sync delays; a bridge has published
\* at most as many sync-requests as connects took effect on it, each at least
\* 1000 ms after the requestSync call of its connect
C13_ConnectOnce ==
    /\ (docEvent.op = "connect" /\ docEvent.bridgeBefore.connected)
       => /\ bridge[docEvent.at] = docEvent.bridgeBefore
          /\ syncTimers[docEvent.at] = docEvent.timersBefore
    /\ \A p \in Participants :
          /\ bridge[p].listeners <= 1
          /\ tally[p].requests <= tally[p].connects
          /\ tally[p].waited >= 1000

\* connect() was called on a connected bridge whose one effective connect has
\* already led to its sync-request
C13_Witness ==
    /\ docEvent.op = "connect"
    /\ docEvent.bridgeBefore.connected
    /\ tally[docEvent.at].connects = 1
    /\ tally[docEvent.at].requests = 1
    /\ now >= 1000

\* ------------------------------------------------------------------------
\* Bridge life cycle: connect, disconnect, destroy
\* ------------------------------------------------------------------------

\* two participants: A opened the editor earlier, B has not connected yet;
\* both edit, change their awareness state, connect, disconnect and destroy
InitLife == DocSession(Pair, {"A"})

\* the edits, awareness changes and disconnects made so far (the clock that
\* awareness.destroy() uses up is not counted)
LifeOps ==
    nextUpdate + disconnects
    + SumOver([p \in Pair |->
                 awareness[p][p] - (IF bridge[p].destroyed THEN 1 ELSE 0)], Pair)

NextLife ==
    \/ \E p \in Pair : Connect(p)
    \/ \E p \in Pair : LifeOps < MaxLifeOps /\ Disconnect(p)
    \/ \E p \in Pair : LifeOps < MaxLifeOps /\ ~bridge[p].destroyed /\ Destroy(p)
    \/ \E p \in Pair : LifeOps < MaxLifeOps /\ LocalUpdate(p, TRUE)
    \/ \E p \in Pair : LifeOps < MaxLifeOps /\ SetAwarenessState(p, TRUE)
    \/ \E p \in Pair : RequestSyncAfterDelay(p, SyncDue(p), TRUE)
    \/ \E s \in Pair, r \in Pair : DeliverDoc(s, r, TRUE)
    \/ \E s \in Pair, r \in Pair, i \in 1..MaxLifeOps : LoseAwareness(s, r, i)

SpecLife == InitLife /\ [][NextLife]_vars

\* C14: disconnect() leaves document and awareness alone and, on a connected
\* bridge, clears room and local participant and resets connected and synced;
\* on a bridge that is not connected it changes nothing. A bridge that is not
\* connected publishes nothing and takes nothing from a received message
C14_DisconnectedIsInert ==
    /\ docEvent.op = "disconnect"
       => /\ ydoc[docEvent.at] = docEvent.docBefore
          /\ awareness[docEvent.at] = docEvent.awarenessBefore
          /\ syncTimers[docEvent.at] = docEvent.timersBefore
          /\ IF docEvent.bridgeBefore.connected
             THEN /\ ~bridge[docEvent.at].connected
                  /\ ~bridge[docEvent.at].synced
                  /\ bridge[docEvent.at].room = None
                  /\ bridge[docEvent.at].localParticipant = None
             ELSE bridge[docEvent.at] = docEvent.bridgeBefore
    /\ (/\ docEvent.op \in {"dropped", "handleDataReceived", "localUpdate",
                            "setAwarenessState", "requestSync"}
        /\ ~docEvent.bridgeBefore.connected)
       => /\ docEvent.published = <<>>
          /\ docEvent.op \in {"dropped", "handleDataReceived"}
             => /\ ydoc[docEvent.at] = docEvent.docBefore
                /\ awareness[docEvent.at] = docEvent.awarenessBefore

\* a document delta reached A's bridge after it disconnected and was not
\* applied
C14_Witness ==
    /\ docEvent.op = "dropped"
    /\ docEvent.topic = DOC_TOPIC
    /\ ~docEvent.bridgeBefore.connected
    /\ ~docEvent.bridgeBefore.destroyed
    /\ docEvent.at = "A"
    /\ disconnects > 0
    /\ ~(docEvent.update \subseteq ydoc[docEvent.at])

\* C15: destroy() leaves the bridge disconnected, and a destroyed bridge never
\* publishes a document delta or an awareness update, whatever is edited,
\* set or received later, connected again or not
C15_DestroyedIsSilent ==
    /\ docEvent.op = "destroy"
       => /\ ~bridge[docEvent.at].connected
          /\ bridge[docEvent.at].room = None
          /\ docEvent.published = <<>>
    /\ docEvent.bridgeBefore.destroyed
       => \A i \in DOMAIN docEvent.published :
             docEvent.published[i].topic \notin {DOC_TOPIC, AWARENESS_TOPIC}

\* the document was edited at a bridge that was destroyed and then connected
\* again to a connected room
C15_Witness ==
    /\ docEvent.op = "localUpdate"
    /\ docEvent.bridgeBefore.destroyed
    /\ docEvent.bridgeBefore.connected
    /\ BridgeReady(docEvent.at)
    /\ docEvent.published = <<>>
    /\ ~(docEvent.update \subseteq docEvent.docBefore)

\* C24: a requestSync that resumes after disconnect() was called on its
\* bridge - the bridge is disconnected, or was connected again and the
\* delay of that connect() is still running - publishes nothing
C24_CancelledRequestSilent ==
    (/\ docEvent.op = "requestSync"
     /\ \/ ~docEvent.bridgeBefore.connected
        \/ Len(docEvent.timersBefore) >= 2)
    => docEvent.published = <<>>

\* C25: a bridge that handles a packet received from another identity
\* publishes nothing on the awareness topic
C25_RemoteAwarenessNotRepublished ==
    docEvent.op = "handleDataReceived"
    => \A i \in DOMAIN docEvent.published :
            docEvent.published[i].topic # AWARENESS_TOPIC

\* ------------------------------------------------------------------------
\* Transport failures
\* ------------------------------------------------------------------------

\* two participants with the whiteboard mounted; A's board holds one element
\* and its bridge connected earlier, B's sync delays are still running; any
\* publish may fail
InitFault ==
    /\ strokes = [p \in Participants |->
                    IF p = "A" THEN <<LegacyStroke(NewElement(1, "pen"))>> ELSE <<>>]
    /\ strokesRef = strokes
    /\ wbListening = [p \in Participants |-> p \in Pair]
    /\ wbTimer = [p \in Participants |->
                    IF p = "B" THEN PendingTimer(0) ELSE NoTimers]
    /\ roomState = [p \in Participants |->
                        IF p \in Pair THEN "connected" ELSE "disconnected"]
    /\ wbNet = EmptyNet
    /\ nextId = 1
    /\ erased = [p \in Participants |-> 0]
    /\ wbEvent = NoEvent
    /\ IdleHistory
    /\ ydoc = [p \in Participants |-> {}]
    /\ bridge = [p \in Participants |->
                    IF p \in Pair THEN ConnectedBridge(p, FALSE) ELSE NewBridge]
    /\ awareness = [p \in Participants |-> [c \in Participants |-> 0]]
    /\ syncTimers = [p \in Participants |-> IF p = "B" THEN <<0>> ELSE <<>>]
    /\ tally = [p \in Participants |->
                    IF p = "B" THEN [NewTally EXCEPT !.connects = 1] ELSE NewTally]
    /\ docNet = EmptyDocNet
    /\ nextUpdate = 0
    /\ disconnects = 0
    /\ lifetime = [p \in Participants |-> NewLifetime]
    /\ docEvent = NoDocEvent
    /\ IdleUi

\* the local operations made so far
FaultOps ==
    (nextId - 1) + SumOver(erased, Pair) + nextUpdate
    + SumOver([p \in Pair |-> awareness[p][p]], Pair)

NextFault ==
    \/ \E ok \in BOOLEAN :
          FaultOps < MaxFaultOps /\ HandleAddStroke("A", "pen", ok)
    \/ \E id \in 1..(MaxFaultOps + 1), ok \in BOOLEAN :
          FaultOps < MaxFaultOps /\ HandleRemoveStroke("A", id, ok)
    \/ \E ok \in BOOLEAN :
          FaultOps < MaxFaultOps /\ HandleClear("A", ok)
    \/ \E p \in Pair : StrokesRefEffect(p)
    \/ \E p \in Pair, ok \in BOOLEAN : RequestSync(p, ok)
    \/ \E s \in Pair, r \in Pair, ok \in BOOLEAN : DeliverWb(s, r, ok)
    \/ \E ok \in BOOLEAN :
          FaultOps < MaxFaultOps /\ LocalUpdate("A", ok)
    \/ \E ok \in BOOLEAN :
          FaultOps < MaxFaultOps /\ SetAwarenessState("A", ok)
    \/ \E p \in Pair, ok \in BOOLEAN : RequestSyncAfterDelay(p, SyncDue(p), ok)
    \/ \E s \in Pair, r \in Pair, ok \in BOOLEAN : DeliverDoc(s, r, ok)

SpecFault == InitFault /\ [][NextFault]_vars

\* a stroke message of p for element id is in flight
StrokeOnWire(p, id) ==
    \E r \in Participants : \E i \in DOMAIN wbNet[p][r] :
        /\ wbNet[p][r][i].type = "stroke"
        /\ wbNet[p][r][i].data[1].id = id

\* a delta of p that carries u is in flight
DeltaOnWire(p, u) ==
    \E r \in Participants : \E i \in DOMAIN docNet[p][r] :
        /\ docNet[p][r][i].topic = DOC_TOPIC
        /\ u \in docNet[p][r][i].update

\* an element or an edit goes on the wire only in the step that made it, with
\* an id no earlier step had, and only when that step's publish succeeded
OnWireOnlyWhenSent(ids) ==
    \A p \in Pair : \A n \in ids :
        /\ (StrokeOnWire(p, n)' /\ ~StrokeOnWire(p, n))
           => /\ wbEvent'.op = "add" /\ wbEvent'.at = p
              /\ wbEvent'.msg.data.id = n /\ n > nextId
              /\ wbEvent'.outcome = "sent"
        /\ (DeltaOnWire(p, n)' /\ ~DeltaOnWire(p, n))
           => /\ docEvent'.op = "localUpdate" /\ docEvent'.at = p
              /\ docEvent'.update = {n} /\ n > nextUpdate
              /\ docEvent'.outcome = "sent"

\* the whiteboard after a step whose publish failed
FailedWbStep ==
    wbEvent.outcome \notin {"none", "sent"}
    => /\ wbEvent.outcome = "logged"
       /\ wbEvent.published = <<>>
       /\ strokes[wbEvent.at] =
            CASE wbEvent.op = "add" -> Append(wbEvent.before, wbEvent.msg.data)
              [] wbEvent.op = "remove" -> FilterOutId(wbEvent.before, wbEvent.msg.id)
              [] wbEvent.op = "clear" -> <<>>
              [] OTHER -> wbEvent.before

\* the bridge after a step whose publish failed
FailedDocStep ==
    docEvent.outcome \notin {"none", "sent"}
    => /\ docEvent.outcome = "logged"
       /\ docEvent.published = <<>>
       /\ bridge[docEvent.at] = docEvent.bridgeBefore
       /\ ydoc[docEvent.at] =
            IF docEvent.op = "localUpdate"
            THEN docEvent.docBefore \cup docEvent.update
            ELSE docEvent.docBefore
       /\ awareness[docEvent.at][docEvent.at] =
            IF docEvent.op = "setAwarenessState"
            THEN docEvent.awarenessBefore[docEvent.at] + 1
            ELSE docEvent.awarenessBefore[docEvent.at]

\* C16: a publish of the bridge or of the whiteboard that fails is logged and
\* not thrown, leaves the local state as a successful publish would (the
\* local add, remove, clear, edit or awareness change stays applied), and an
\* element or edit whose publish failed is never put on the wire afterwards
C16_FailuresSwallowed ==
    /\ [](FailedWbStep /\ FailedDocStep)
    /\ [][OnWireOnlyWhenSent(1..(MaxFaultOps + 1))]_vars

\* A's publish of a new element failed and the element is on A's board, and
\* the publish of a full document state failed at the bridge that was asked
C16_Witness ==
    /\ wbEvent.op = "add" /\ wbEvent.outcome = "logged"
    /\ wbEvent.msg.data \in {strokes[wbEvent.at][i] : i \in DOMAIN strokes[wbEvent.at]}
    /\ docEvent.op = "handleDataReceived" /\ docEvent.outcome = "logged"
    /\ docEvent.topic = SYNC_REQUEST_TOPIC

\* ------------------------------------------------------------------------
\* Channel not ready
\* ------------------------------------------------------------------------

\* room.state of p changes (the connection drops and comes back)
RoomStateChanged(p, state) ==
    /\ roomState[p] # state
    /\ roomState' = [roomState EXCEPT ![p] = state]
    /\ UNCHANGED <<wbOnly, docVars, uiVars>>

\* the local operations and bridge disconnects made so far
ReadyOps ==
    (nextId - 1) + SumOver(erased, Pair) + nextUpdate + disconnects
    + SumOver([p \in Pair |-> awareness[p][p]], Pair)

\* the session of InitFault with B's whiteboard mounted long ago
InitReady ==
    /\ strokes = [p \in Participants |->
                    IF p = "A" THEN <<LegacyStroke(NewElement(1, "pen"))>> ELSE <<>>]
    /\ strokesRef = strokes
    /\ wbListening = [p \in Participants |-> p \in Pair]
    /\ wbTimer = [p \in Participants |-> NoTimers]
    /\ roomState = [p \in Participants |->
                        IF p \in Pair THEN "connected" ELSE "disconnected"]
    /\ wbNet = EmptyNet
    /\ nextId = 1
    /\ erased = [p \in Participants |-> 0]
    /\ wbEvent = NoEvent
    /\ IdleHistory
    /\ ydoc = [p \in Participants |-> {}]
    /\ bridge = [p \in Participants |->
                    IF p \in Pair THEN ConnectedBridge(p, FALSE) ELSE NewBridge]
    /\ awareness = [p \in Participants |-> [c \in Participants |-> 0]]
    /\ syncTimers = [p \in Participants |-> IF p = "B" THEN <<0>> ELSE <<>>]
    /\ tally = [p \in Participants |->
                    IF p = "B" THEN [NewTally EXCEPT !.connects = 1] ELSE NewTally]
    /\ docNet = EmptyDocNet
    /\ nextUpdate = 0
    /\ disconnects = 0
    /\ lifetime = [p \in Participants |-> NewLifetime]
    /\ docEvent = NoDocEvent
    /\ IdleUi

\* A's room state comes and goes; A draws, erases, edits, and disconnects and
\* connects its bridge; B asks for the document
NextReady ==
    \/ \E state \in {"connected", "reconnecting"} : RoomStateChanged("A", state)
    \/ ReadyOps < MaxReadyOps /\ HandleAddStroke("A", "pen", TRUE)
    \/ \E id \in 1..(MaxReadyOps + 1) :
          ReadyOps < MaxReadyOps /\ HandleRemoveStroke("A", id, TRUE)
    \/ ReadyOps < MaxReadyOps /\ HandleClear("A", TRUE)
    \/ \E p \in Pair : StrokesRefEffect(p)
    \/ \E s \in Pair, r \in Pair : DeliverWb(s, r, TRUE)
    \/ ReadyOps < MaxReadyOps /\ LocalUpdate("A", TRUE)
    \/ ReadyOps < MaxReadyOps /\ SetAwarenessState("A", TRUE)
    \/ ReadyOps < MaxReadyOps /\ Disconnect("A")
    \/ Connect("A")
    \/ \E p \in Pair : RequestSyncAfterDelay(p, SyncDue(p), TRUE)
    \/ \E s \in Pair, r \in Pair : DeliverDoc(s, r, TRUE)

SpecReady == InitReady /\ [][NextReady]_vars

\* the whiteboard step of a participant whose room is not connected
SkippedWbStep ==
    (wbEvent.op # "init" /\ wbEvent.room # "connected")
    => /\ wbEvent.published = <<>>
       /\ wbEvent.outcome = "none"
       /\ wbEvent.op \in {"add", "remove", "clear"}
          => strokes[wbEvent.at] =
               CASE wbEvent.op = "add" -> Append(wbEvent.before, wbEvent.msg.data)
                 [] wbEvent.op = "remove" -> FilterOutId(wbEvent.before, wbEvent.msg.id)
                 [] OTHER -> <<>>

\* the step of a bridge that is not connected or whose room is not connected
SkippedDocStep ==
    (/\ docEvent.op \in {"localUpdate", "setAwarenessState", "requestSync",
                           "handleDataReceived", "dropped"}
     /\ ~docEvent.ready)
    => /\ docEvent.published = <<>>
       /\ docEvent.outcome = "none"

\* C17: with the bridge not connected or the room state other than
\* connected, an edit, an awareness change and a received sync-request make
\* the bridge publish nothing, and a local add, remove or clear changes the
\* list and publishes nothing; an element or edit skipped this way is never
\* put on the wire afterwards
C17_NotReadyNotSent ==
    /\ [](SkippedWbStep /\ SkippedDocStep)
    /\ [][OnWireOnlyWhenSent(1..(MaxReadyOps + 1))]_vars

\* A drew an element while its room was reconnecting and answered no
\* document sync-request; the room is connected again, nothing of A's is in
\* flight and the element is still on A's board only
C17_Witness ==
    /\ wbEvent.op = "add" /\ wbEvent.at = "A" /\ wbEvent.room = "reconnecting"
    /\ docEvent.op = "handleDataReceived" /\ docEvent.at = "A"
    /\ docEvent.topic = SYNC_REQUEST_TOPIC /\ ~docEvent.ready
    /\ roomState["A"] = "connected"
    /\ BridgeReady("A")
    /\ wbNet["A"]["B"] = <<>> /\ docNet["A"]["B"] = <<>>
    /\ wbEvent.msg.data.id \in Ids(strokes["A"]) \ Ids(strokes["B"])

\* ------------------------------------------------------------------------
\* Cursor broadcast (usePresence.broadcastCursor)
\* ------------------------------------------------------------------------

\* Date.now() when the whiteboard, and with it usePresence, is mounted
MountTime == 1000

\* milliseconds between two readings of the clock: the frames of a 60 Hz
\* display are 16 or 17 ms apart
FrameGaps == {16, 17}

\* the positions the pointer reports
Positions == {[x |-> 0, y |-> 0], [x |-> 1, y |-> 1]}

\* a callback that does not look at the time of the last broadcast
BroadcastDue_Unthrottled(t, last) == TRUE

\* the callback goes on unless now - lastBroadcastRef.current < 33
BroadcastDue(t, last) == ~(t - last < BROADCAST_INTERVAL_MS)

\* the callback handed to requestAnimationFrame, run at clock t: the new
\* lastBroadcastRef.current and what it publishes
FrameCallback(last, pos, t) ==
    IF ~BroadcastDue(t, last) \/ pos = NoPosition
    THEN [last |-> last, out |-> <<>>]
    ELSE [last |-> t, out |-> <<EncodeCursor(pos)>>]

RECURSIVE RunCallbacks(_, _, _, _)
\* the browser runs the n callbacks requested for this frame, one after the
\* other
RunCallbacks(n, last, pos, t) ==
    IF n = 0 THEN [last |-> last, out |-> <<>>]
    ELSE LET first == FrameCallback(last, pos, t)
             rest == RunCallbacks(n - 1, first.last, pos, t)
         IN  [last |-> rest.last, out |-> first.out \o rest.out]

\* localParticipant.publishData(..., {reliable: false, topic: PRESENCE_TOPIC})
PresencePublish(net, p, payloads, ok) ==
    [s \in Participants |-> [r \in Participants |->
        IF s = p /\ r # p /\ roomState[r] = "connected" /\ ok
        THEN net[s][r] \o payloads
        ELSE net[s][r]]]

\* broadcastCursor(position)
BroadcastCursor(p, position) ==
    /\ pendingPositionRef' = [pendingPositionRef EXCEPT ![p] = position]
    /\ IF animationFrameRef[p] # 0
       THEN UNCHANGED <<animationFrameRef, rafQueue>>
       ELSE /\ animationFrameRef' = [animationFrameRef EXCEPT ![p] = 1]
            /\ rafQueue' = [rafQueue EXCEPT ![p] = @ + 1]
    /\ presenceEvent' = PresenceEvent("broadcastCursor", p, p, <<>>, 0)
    /\ UNCHANGED <<lastBroadcastRef, presenceNet, cursorSent>>
    /\ UNCHANGED <<cursors, floatingReactions, reactionSeq, now, loopEvent, wbVars, docVars>>

\* an animation frame of p's page: the requested callbacks run
AnimationFrame(p, ok) ==
    /\ rafQueue[p] > 0
    /\ LET run == RunCallbacks(rafQueue[p], lastBroadcastRef[p],
                               pendingPositionRef[p], now)
       IN  /\ lastBroadcastRef' = [lastBroadcastRef EXCEPT ![p] = run.last]
           /\ presenceNet' = PresencePublish(presenceNet, p, run.out, ok)
           /\ cursorSent' = [cursorSent EXCEPT ![p] =
                    IF run.out # <<>> /\ ok THEN now ELSE @]
           /\ presenceEvent' = PresenceEvent("animationFrame", p, p,
                                    IF ok THEN run.out ELSE <<>>, rafQueue[p])
    /\ animationFrameRef' = [animationFrameRef EXCEPT ![p] = 0]
    /\ rafQueue' = [rafQueue EXCEPT ![p] = 0]
    /\ UNCHANGED pendingPositionRef
    /\ UNCHANGED <<cursors, floatingReactions, reactionSeq, now, loopEvent, wbVars, docVars>>

\* RoomEvent.DataReceived on the presence topic: the packet at the head of
\* the channel from s reaches r
DeliverPresence(s, r) ==
    /\ presenceNet[s][r] # <<>>
    /\ PresenceHandleData(r, s, PRESENCE_TOPIC, Head(presenceNet[s][r]))
    /\ presenceNet' = [presenceNet EXCEPT ![s][r] = Tail(@)]
    /\ presenceEvent' = PresenceEvent(
            IF JsonParseThrows(Head(presenceNet[s][r])) THEN "caught" ELSE "handleData",
            r, s, <<>>, 0)
    /\ UNCHANGED <<lastBroadcastRef, pendingPositionRef, animationFrameRef, rafQueue,
                   cursorSent>>
    /\ UNCHANGED <<floatingReactions, reactionSeq, now, loopEvent, wbVars, docVars>>

\* d milliseconds pass
Tick(d) ==
    /\ now' = now + d
    /\ UNCHANGED <<wbVars, docVars, uiOnly>>

\* two participants in the room with the whiteboard open; nobody has moved
\* the pointer yet
InitCursor ==
    /\ roomState = [p \in Participants |->
                        IF p \in Pair THEN "connected" ELSE "disconnected"]
    /\ IdleWb
    /\ IdleDoc
    /\ IdlePresence
    /\ cursors = NoCursors
    /\ floatingReactions = NoReactions
    /\ reactionSeq = 0
    /\ now = MountTime
    /\ loopEvent = NoLoop

\* A moves the pointer over its whiteboard, B sees the ghost cursor
NextCursor ==
    \/ \E position \in Positions : BroadcastCursor("A", position)
    \/ AnimationFrame("A", TRUE)
    \/ \E s \in Pair, r \in Pair : DeliverPresence(s, r)
    \/ \E d \in FrameGaps : now + d <= MountTime + MaxElapsed /\ Tick(d)

SpecCursor == InitCursor /\ [][NextCursor]_vars

\* C20: an animation frame publishes at most one cursor message, and a cursor
\* message is published at least 33 ms after the previous one of the same
\* participant
C20_CursorThrottled ==
    presenceEvent.op = "animationFrame"
    => /\ Len(presenceEvent.published) <= 1
       /\ (presenceEvent.published # <<>> /\ presenceEvent.prevSent # -1)
          => presenceEvent.time - presenceEvent.prevSent >= 33

\* a cursor message went out exactly 33 ms after the previous one, the frame
\* in between having published nothing; it carries the latest position
C20_Witness ==
    /\ presenceEvent.op = "animationFrame"
    /\ presenceEvent.prevSent # -1
    /\ presenceEvent.time - presenceEvent.prevSent = 33
    /\ presenceEvent.published =
          <<EncodeCursor(pendingPositionRef[presenceEvent.at])>>

\* C21: the animation frame that ends a burst of broadcastCursor calls
\* publishes exactly one cursor message, and it carries the last position of
\* the burst, whenever the burst started
C21_BurstPublishesLast ==
    presenceEvent.op = "animationFrame"
    => presenceEvent.published =
          <<EncodeCursor(pendingPositionRef[presenceEvent.at])>>

\* ------------------------------------------------------------------------
\* Malformed payloads
\* ------------------------------------------------------------------------

\* a client in the room as s publishes bytes that are no JSON text on the
\* whiteboard topic
GarbageOnWhiteboard(s) ==
    /\ wbEvent.errors + SumOver([r \in Pair |-> Len(wbNet[s][r])], Pair) < MaxParseOps
    /\ wbNet' = [wbNet EXCEPT ![s] = [r \in Participants |->
            IF r # s /\ roomState[r] = "connected"
            THEN Append(wbNet[s][r], NotJson) ELSE wbNet[s][r]]]
    /\ UNCHANGED <<strokes, strokesRef, wbListening, wbTimer, nextId, historyVars, erased, wbEvent>>
    /\ UNCHANGED <<roomState, docVars, uiVars>>

\* the same on the presence topic
GarbageOnPresence(s) ==
    /\ presenceEvent.errors + SumOver([r \in Pair |-> Len(presenceNet[s][r])], Pair)
          < MaxParseOps
    /\ presenceNet' = [presenceNet EXCEPT ![s] = [r \in Participants |->
            IF r # s /\ roomState[r] = "connected"
            THEN Append(presenceNet[s][r], NotJsonCursor) ELSE presenceNet[s][r]]]
    /\ UNCHANGED <<lastBroadcastRef, pendingPositionRef, animationFrameRef, rafQueue,
                   cursorSent, presenceEvent>>
    /\ UNCHANGED <<cursors, floatingReactions, reactionSeq, now, loopEvent, wbVars, docVars>>

\* A and B with the whiteboard open: A's board holds one element and shows
\* B's cursor, the sync delay of B's whiteboard is about to end
InitParse ==
    /\ strokes = [p \in Participants |->
                    IF p = "A" THEN <<LegacyStroke(NewElement(1, "pen"))>> ELSE <<>>]
    /\ strokesRef = strokes
    /\ wbListening = [p \in Participants |-> p \in Pair]
    /\ wbTimer = [p \in Participants |->
                    IF p = "B" THEN PendingTimer(MountTime - WB_SYNC_DELAY_MS)
                    ELSE NoTimers]
    /\ roomState = [p \in Participants |->
                        IF p \in Pair THEN "connected" ELSE "disconnected"]
    /\ wbNet = EmptyNet
    /\ nextId = 1
    /\ erased = [p \in Participants |-> 0]
    /\ wbEvent = NoEvent
    /\ IdleHistory
    /\ IdleDoc
    /\ IdlePresence
    /\ cursors = [NoCursors EXCEPT !["A"]["B"] =
                    [x |-> 1, y |-> 1, identity |-> "B",
                     color |-> GetParticipantColor("B"), timestamp |-> MountTime]]
    /\ floatingReactions = NoReactions
    /\ reactionSeq = 0
    /\ now = MountTime
    /\ loopEvent = NoLoop

\* B draws, moves its pointer and asks for the board, and its client also
\* publishes malformed payloads on both topics
NextParse ==
    \/ GarbageOnWhiteboard("B")
    \/ GarbageOnPresence("B")
    \/ nextId - 1 < MaxParseOps /\ HandleAddStroke("B", "pen", TRUE)
    \/ \E p \in Pair : StrokesRefEffect(p)
    \/ RequestSync("B", TRUE)
    \/ \E s \in Pair, r \in Pair : DeliverWb(s, r, TRUE)
    \/ \E position \in Positions : BroadcastCursor("B", position)
    \/ AnimationFrame("B", TRUE)
    \/ \E s \in Pair, r \in Pair : DeliverPresence(s, r)

SpecParse == InitParse /\ [][NextParse]_vars

\* C18: a whiteboard or presence payload that JSON.parse rejects leaves the
\* list and the cursor map as they were and publishes nothing, the handler
\* stays registered, and a well-formed stroke or cursor message handled
\* afterwards is applied as usual
C18_MalformedDropped ==
    /\ wbEvent.op = "caught"
       => /\ strokes[wbEvent.at] = wbEvent.before
          /\ wbEvent.published = <<>> /\ wbEvent.outcome = "none"
          /\ wbListening[wbEvent.at]
    /\ (wbEvent.op = "handleData" /\ wbEvent.msg.type = "stroke")
       => strokes[wbEvent.at] = Append(wbEvent.before, wbEvent.msg.data)
    /\ presenceEvent.op = "caught"
       => /\ cursors[presenceEvent.at] = presenceEvent.cursorsBefore
          /\ presenceEvent.published = <<>>
    /\ presenceEvent.op = "handleData"
       => /\ cursors[presenceEvent.at][presenceEvent.from].identity = presenceEvent.from
          /\ cursors[presenceEvent.at][presenceEvent.from].timestamp = presenceEvent.time
          /\ \A q \in Participants \ {presenceEvent.from} :
                cursors[presenceEvent.at][q] = presenceEvent.cursorsBefore[q]

\* A's handlers caught a malformed payload each, with an element on the
\* board and B's cursor shown, and have since applied a stroke of B and a
\* new cursor position of B
C18_Witness ==
    /\ wbEvent.op = "handleData" /\ wbEvent.at = "A" /\ wbEvent.msg.type = "stroke"
    /\ wbEvent.errors > 0 /\ wbEvent.before # <<>>
    /\ Len(strokes["A"]) = Len(wbEvent.before) + 1
    /\ presenceEvent.op = "handleData" /\ presenceEvent.at = "A"
    /\ presenceEvent.errors > 0
    /\ presenceEvent.cursorsBefore["B"].identity = "B"
    /\ cursors["A"]["B"].x = 0

\* ------------------------------------------------------------------------
\* Whiteboard sync-request on mount
\* ------------------------------------------------------------------------

\* milliseconds between two runs of the whiteboard effect
MountGaps == {500, 1000}

\* A and B in the room on an empty board; A's whiteboard effect has just run,
\* B's ran long ago
InitMount == WbSession(Pair, EmptyBoards, {"A"}, 0)

\* A's effect is cleaned up and runs again (room or localParticipant
\* changed), A's room state comes and goes, time passes
NextMount ==
    \/ WbCleanup("A")
    \/ Len(wbTimer["A"]) < MaxMounts /\ now <= MountTime /\ WbMount("A")
    \/ RequestSync("A", TRUE)
    \/ \E state \in {"connected", "reconnecting"} : RoomStateChanged("A", state)
    \/ \E d \in MountGaps : now + d <= MountTime + MaxElapsed /\ Tick(d)
    \/ \E s \in Pair, r \in Pair : DeliverWb(s, r, TRUE)

SpecMount == InitMount /\ [][NextMount]_vars

RECURSIVE CountType(_, _)
\* the payloads of a type in a channel
CountType(payloads, type) ==
    IF payloads = <<>> THEN 0
    ELSE (IF Head(payloads).type = type THEN 1 ELSE 0)
         + CountType(Tail(payloads), type)

\* the requestSync of p's oldest mount resumes in this step
TimerFires(p) ==
    wbTimer[p] # NoTimers /\ wbTimer'[p] = Tail(wbTimer[p])

\* what a step may do to p's sync-requests and delays
SyncRequestPerMount(p, q) ==
    /\ Len(wbTimer'[p]) > Len(wbTimer[p])
       => /\ ~wbListening[p] /\ wbListening'[p]
          /\ Len(wbTimer'[p]) = Len(wbTimer[p]) + 1
    /\ CountType(wbNet'[p][q], "sync-request") > CountType(wbNet[p][q], "sync-request")
       => /\ TimerFires(p)
          /\ CountType(wbNet'[p][q], "sync-request")
                = CountType(wbNet[p][q], "sync-request") + 1
          /\ now' - Head(wbTimer[p]).since >= 1500
          /\ ~Head(wbTimer[p]).isCleanedUp
          /\ roomState[p] = "connected"
    /\ (TimerFires(p) /\ (Head(wbTimer[p]).isCleanedUp \/ roomState[p] # "connected"))
       => wbNet'[p] = wbNet[p]

\* C19: every run of the whiteboard effect starts one delay; a sync-request
\* is published only by a delay that ends, one per delay, not earlier than
\* 1500 ms after its mount, and not at all when by then the effect was
\* cleaned up or the room state is not connected
C19_OneRequestPerMount ==
    [][SyncRequestPerMount("A", "B") /\ SyncRequestPerMount("B", "A")]_vars

\* the delay of a second mount of A ended 1500 ms after that mount and
\* published its sync-request, after the delay of the first mount, which was
\* cleaned up, had ended without one
C19_Witness ==
    /\ wbEvent.op = "requestSync" /\ wbEvent.at = "A"
    /\ wbEvent.published = <<SyncRequestMsg>>
    /\ now = 2000
    /\ wbTimer["A"] = NoTimers
    /\ CountType(wbNet["A"]["B"], "sync-request") = 1

\* ------------------------------------------------------------------------
\* Stale cursors and departures
\* ------------------------------------------------------------------------

\* a sweep that also removes a cursor that is exactly CURSOR_STALE_MS old
IsStale_Inclusive(t, cursor) == t - cursor.timestamp >= CURSOR_STALE_MS

\* now - updated[identity].timestamp > CURSOR_STALE_MS
IsStale(t, cursor) == t - cursor.timestamp > CURSOR_STALE_MS

\* the updater of the sweep: the map without its stale entries
SweepCursors(map, t) ==
    [q \in Participants |->
        IF map[q] # NoCursor /\ IsStale(t, map[q]) THEN NoCursor ELSE map[q]]

\* the clock at the next run of the interval of a hook mounted at MountTime
NextSweep(t) ==
    MountTime + ((t - MountTime) \div SWEEP_INTERVAL_MS + 1) * SWEEP_INTERVAL_MS

\* the interval callback of the hook at p runs
Sweep(p) ==
    /\ now' = NextSweep(now)
    /\ cursors' = [cursors EXCEPT ![p] = SweepCursors(@, now')]
    /\ presenceEvent' = [PresenceEvent("sweep", p, p, <<>>, 0) EXCEPT !.time = now']
    /\ UNCHANGED <<lastBroadcastRef, pendingPositionRef, animationFrameRef, rafQueue,
                   presenceNet, cursorSent>>
    /\ UNCHANGED <<floatingReactions, reactionSeq, loopEvent, wbVars, docVars>>

\* a handler that drops the whole map when somebody leaves
WithoutCursor_DropsAll(map, identity) == [q \in Participants |-> NoCursor]

\* const updated = { ...prev }; delete updated[participant.identity]
WithoutCursor(map, identity) == [map EXCEPT ![identity] = NoCursor]

\* q has left the room: handleParticipantDisconnected(participant) at p
HandleParticipantDisconnected(p, q) ==
    /\ q # p
    /\ cursors' = [cursors EXCEPT ![p] = WithoutCursor(@, q)]
    /\ roomState' = [roomState EXCEPT ![q] = "disconnected"]
    /\ presenceEvent' = PresenceEvent("participantDisconnected", p, q, <<>>, 0)
    /\ UNCHANGED <<lastBroadcastRef, pendingPositionRef, animationFrameRef, rafQueue,
                   presenceNet, cursorSent>>
    /\ UNCHANGED <<floatingReactions, reactionSeq, now, loopEvent, wbOnly, docVars>>

\* milliseconds the sweep spec lets pass between two events
SweepGaps == {500}

\* A and B in the room with the whiteboard open; B's map shows the cursors
\* of A and of C, which has gone without B having been told yet
InitSweep ==
    /\ roomState = [p \in Participants |->
                        IF p \in Pair THEN "connected" ELSE "disconnected"]
    /\ IdleWb
    /\ IdleDoc
    /\ IdlePresence
    /\ cursors = [NoCursors EXCEPT !["B"] = [q \in Participants |->
                    IF q = "B" THEN NoCursor
                    ELSE [x |-> 1, y |-> 1, identity |-> q,
                          color |-> GetParticipantColor(q), timestamp |-> MountTime]]]
    /\ floatingReactions = NoReactions
    /\ reactionSeq = 0
    /\ now = MountTime
    /\ loopEvent = NoLoop

\* A moves its pointer now and then and may leave; B's hook receives, sweeps
\* and is told of departures
NextSweepStep ==
    \/ /\ roomState["A"] = "connected" /\ presenceNet["A"]["B"] = <<>>
       /\ BroadcastCursor("A", [x |-> 0, y |-> 0])
    \/ AnimationFrame("A", TRUE)
    \/ DeliverPresence("A", "B")
    \/ NextSweep(now) <= MountTime + MaxSweeps * SWEEP_INTERVAL_MS /\ Sweep("B")
    \/ \E q \in {"A", "C"} : cursors["B"][q] # NoCursor /\ HandleParticipantDisconnected("B", q)
    \/ \E d \in SweepGaps : now + d < NextSweep(now) /\ Tick(d)

SpecSweep == InitSweep /\ [][NextSweepStep]_vars

DepartureRemovesOne ==
    presenceEvent.op = "participantDisconnected"
    => /\ cursors[presenceEvent.at][presenceEvent.from] = NoCursor
       /\ \A q \in Participants \ {presenceEvent.from} :
            cursors[presenceEvent.at][q] = presenceEvent.cursorsBefore[q]

\* a cursor enters a map only in a step that handles a cursor message of
\* its owner
CursorAppearsByMessage(p, q) ==
    (cursors[p][q] = NoCursor /\ cursors'[p][q] # NoCursor)
    => /\ presenceNet[q][p] # <<>>
       /\ presenceNet'[q][p] = Tail(presenceNet[q][p])
       /\ presenceEvent'.op = "handleData"
       /\ presenceEvent'.at = p /\ presenceEvent'.from = q

\* C23: handling the departure of P removes P's cursor at once and leaves
\* every other cursor as it was, and P's cursor comes back only when a
\* cursor message of P is handled afterwards
C23_DepartureRemovesCursor ==
    /\ []DepartureRemovesOne
    /\ [][\A p \in Participants, q \in Participants : CursorAppearsByMessage(p, q)]_vars

\* B was told that A has left, which removed A's cursor and kept C's, and a
\* cursor message A had published before has brought A's cursor back
C23_Witness ==
    /\ presenceEvent.op = "handleData"
    /\ presenceEvent.at = "B" /\ presenceEvent.from = "A"
    /\ roomState["A"] = "disconnected"
    /\ presenceEvent.cursorsBefore["A"] = NoCursor
    /\ cursors["B"]["A"] # NoCursor
    /\ cursors["B"]["C"] # NoCursor

\* ------------------------------------------------------------------------
\* Sequential use of the whiteboard
\* ------------------------------------------------------------------------

\* no whiteboard message is in flight
NothingInFlight == wbNet = EmptyNet

\* A, B and C connected and holding the same list; C's whiteboard has just
\* mounted, its sync delay is running
InitSeq ==
    \E l \in ShortLists :
        WbSession(Participants, [p \in Participants |-> l], {"C"}, MaxLen)

\* the adds, removes and clears issued so far
SeqOps == (nextId - MaxLen) + SumOver(erased, Participants)

\* an add, remove, clear or sync-request is issued only while nothing is in
\* flight; deliveries and render effects take their time
NextSeq ==
    \/ \E p \in Participants :
          NothingInFlight /\ SeqOps < MaxSeqOps /\ HandleAddStroke(p, "pen", TRUE)
    \/ \E p \in Participants, id \in 1..(MaxLen + MaxSeqOps) :
          NothingInFlight /\ SeqOps < MaxSeqOps /\ HandleRemoveStroke(p, id, TRUE)
    \/ \E p \in Participants :
          NothingInFlight /\ SeqOps < MaxSeqOps /\ HandleClear(p, TRUE)
    \/ \E p \in Participants : NothingInFlight /\ RequestSync(p, TRUE)
    \/ \E p \in Participants : StrokesRefEffect(p)
    \/ \E s \in Participants, r \in Participants : DeliverWb(s, r, TRUE)

SpecSeq == InitSeq /\ [][NextSeq]_vars

\* C27: under sequential use, whenever every whiteboard message has been
\* delivered all participants hold the same list
C27_SequentialConverges ==
    NothingInFlight => \A p, q \in Participants : strokes[p] = strokes[q]

\* ------------------------------------------------------------------------
\* Undo history of the whiteboard component
\* ------------------------------------------------------------------------

\* Whiteboard: the element shown for a stroke of the room page; a stroke is
\* a shape when it says so and names its tool, anything else is drawn as a
\* stroke, with the pen when it names no tool
ToElement(stroke) ==
    IF stroke.type = "shape" /\ stroke.tool # Undefined
    THEN [id |-> stroke.id, tool |-> stroke.tool, type |-> "shape"]
    ELSE [id |-> stroke.id,
          tool |-> IF stroke.tool = Undefined THEN "pen" ELSE stroke.tool,
          type |-> "stroke"]

\* the elements prop of the component: strokes.map(...)
Elements(p) == [i \in DOMAIN strokes[p] |-> ToElement(strokes[p][i])]

\* Whiteboard.handleSetElements: the legacy strokes handed to onSetStrokes
SetElementsStrokes(newElements) ==
    [i \in DOMAIN newElements |->
        [id |-> newElements[i].id, tool |-> newElements[i].tool,
         type |-> IF newElements[i].type = "shape" THEN "shape" ELSE "stroke"]]

\* a history that is never trimmed
TrimHistory_NoShift(newHistory) == newHistory

\* if (newHistory.length > 50) newHistory.shift()
TrimHistory(newHistory) ==
    IF Len(newHistory) > HISTORY_LIMIT THEN Tail(newHistory) ELSE newHistory

\* pushToHistory: the snapshots up to the current one, then the new one
PushToHistory(p, newElements) ==
    /\ history' = [history EXCEPT ![p] =
            TrimHistory(Append(SubSeq(history[p], 1, historyIndex[p] + 1),
                               newElements))]
    /\ historyIndex' = [historyIndex EXCEPT ![p] =
            IF historyIndex[p] + 1 < HISTORY_LAST_INDEX
            THEN historyIndex[p] + 1 ELSE HISTORY_LAST_INDEX]

\* WhiteboardPro.handleAddElement: onAddElement(element), then
\* pushToHistory([...elements, element])
HandleAddElement(p, tool, ok) ==
    /\ OnAddStroke(p, tool, ok)
    /\ PushToHistory(p, Append(Elements(p), NewElement(nextId + 1, tool)))
    /\ UNCHANGED <<historyState, historyCalls>>

\* WhiteboardPro.handleClear: pushToHistory([]), then onClear()
HandleClearBoard(p, ok) ==
    /\ PushToHistory(p, <<>>)
    /\ OnClear(p, ok)
    /\ UNCHANGED <<historyState, historyCalls>>

\* useEffect: a history that holds nothing but the empty board takes the
\* elements shown as its only snapshot
HistoryInitEffect(p) ==
    /\ wbListening[p]
    /\ Len(history[p]) = 1 /\ history[p][1] = <<>> /\ Elements(p) # <<>>
    /\ history' = [history EXCEPT ![p] = <<Elements(p)>>]
    /\ UNCHANGED <<strokes, strokesRef, wbListening, wbTimer, wbNet, nextId, erased,
                   wbEvent, historyIndex, historyState, historyCalls, roomState, nonWb>>

CanUndo(p) == historyIndex[p] > 0

CanRedo(p) == historyIndex[p] < Len(history[p]) - 1

\* the snapshot the history holds at the index it keeps for the list
SnapshotAt_Current(p, newIndex) == history[p][historyIndex[p] + 1]

\* history[newIndex]
SnapshotAt(p, newIndex) == history[p][newIndex + 1]

\* setHistoryIndex(newIndex); onSetElements(history[newIndex]), which reaches
\* handleSetStrokes of the room page: setStrokes(newStrokes) and no publish
SetHistoryIndex(p, op, newIndex) ==
    /\ historyIndex' = [historyIndex EXCEPT ![p] = newIndex]
    /\ strokes' = [strokes EXCEPT ![p] = SetElementsStrokes(SnapshotAt(p, newIndex))]
    /\ wbEvent' = Event(op, p, p, ClearMsg, strokes[p], <<>>, TRUE)
    /\ UNCHANGED <<strokesRef, wbListening, wbTimer, wbNet, nextId, erased, history,
                   historyState, historyCalls, roomState, nonWb>>

\* a click that finds nothing to undo or to redo: the handler returns
ReturnsEarly(p, op) ==
    /\ wbEvent' = Event(op, p, p, ClearMsg, strokes[p], <<>>, TRUE)
    /\ UNCHANGED <<strokes, strokesRef, wbListening, wbTimer, wbNet, nextId, erased,
                   historyVars, roomState, nonWb>>

\* WhiteboardPro.handleUndo
HandleUndo(p) ==
    IF ~CanUndo(p) THEN ReturnsEarly(p, "undo")
    ELSE SetHistoryIndex(p, "undo", historyIndex[p] - 1)

\* WhiteboardPro.handleRedo
HandleRedo(p) ==
    IF ~CanRedo(p) THEN ReturnsEarly(p, "redo")
    ELSE SetHistoryIndex(p, "redo", historyIndex[p] + 1)

\* every packet delivered and every render finished
Settled == NothingInFlight /\ strokesRef = strokes

\* A and B in the room with the same board; A draws, clears, undoes and
\* redoes while B receives
InitUndo == \E l \in ShortLists : WbSession(Pair, [p \in Participants |-> l], {}, Len(l))

NextUndo ==
    \/ \E tool \in DrawTools :
          /\ Settled /\ nextId + erased["A"] < MaxPushes
          /\ HandleAddElement("A", tool, TRUE)
    \/ /\ Settled /\ nextId + erased["A"] < MaxPushes
       /\ HandleClearBoard("A", TRUE)
    \/ /\ Settled /\ wbEvent.undone < MaxUndos
       /\ HandleUndo("A")
    \/ /\ Settled /\ wbEvent.undone < MaxUndos
       /\ HandleRedo("A")
    \/ \E p \in Pair : HistoryInitEffect(p)
    \/ \E p \in Pair : StrokesRefEffect(p)
    \/ DeliverWb("A", "B", TRUE)

SpecUndo == InitUndo /\ [][NextUndo]_vars

\* the step is an undo or a redo click
Clicked(op) == wbEvent'.op = op /\ wbEvent'.undone = wbEvent.undone + 1

\* the click left everything the participants hold as it was
NothingDone ==
    UNCHANGED <<strokes, history, historyIndex, wbNet>>

\* the click moved the index of p to newIndex and put that snapshot on p's
\* board, and nothing else happened
LocalStep(p, newIndex) ==
    /\ historyIndex'[p] = newIndex
    /\ strokes'[p] = SetElementsStrokes(history[p][newIndex + 1])
    /\ \A q \in Participants \ {p} : strokes'[q] = strokes[q]
    /\ wbNet' = wbNet
    /\ wbEvent'.published = <<>>
    /\ history' = history

UndoRedoStep ==
    /\ Clicked("undo") =>
          LET p == wbEvent'.at
          IN  IF historyIndex[p] = 0 THEN NothingDone
              ELSE LocalStep(p, historyIndex[p] - 1)
    /\ Clicked("redo") =>
          LET p == wbEvent'.at
          IN  IF historyIndex[p] = Len(history[p]) - 1 THEN NothingDone
              ELSE LocalStep(p, historyIndex[p] + 1)

\* C28: an undo or a redo puts the history snapshot at the new index on the
\* local board, publishes no whiteboard message and changes no other
\* participant's list; undo at index 0 and redo at the last index do nothing
C28_UndoRedoLocal == [][UndoRedoStep]_vars

\* an undo that changed A's board while B still shows what A showed before
C28_Witness ==
    /\ wbEvent.op = "undo" /\ wbEvent.at = "A"
    /\ strokes["A"] # wbEvent.before
    /\ strokes["B"] = wbEvent.before /\ strokes["B"] # <<>>
    /\ NothingInFlight

\* A alone in the room, drawing until the board is full, clearing it then,
\* with a few undo and redo clicks in between
InitHistory ==
    \E l \in ShortLists : WbSession({"A"}, [p \in Participants |-> l], {}, Len(l))

NextHistory ==
    \/ /\ Settled /\ nextId + erased["A"] < HISTORY_LIMIT + MaxOverflow
       /\ Len(strokes["A"]) < MaxLen
       /\ HandleAddElement("A", "pen", TRUE)
    \/ /\ Settled /\ nextId + erased["A"] < HISTORY_LIMIT + MaxOverflow
       /\ Len(strokes["A"]) >= MaxLen
       /\ HandleClearBoard("A", TRUE)
    \/ /\ Settled /\ wbEvent.undone < MaxUndos
       /\ HandleUndo("A")
    \/ /\ Settled /\ wbEvent.undone < MaxUndos
       /\ HandleRedo("A")
    \/ HistoryInitEffect("A")
    \/ StrokesRefEffect("A")

SpecHistory == InitHistory /\ [][NextHistory]_vars

\* C29: the history index is a valid position of the history, and the
\* history holds at most 50 snapshots
C29_HistoryIndexValid ==
    \A p \in Participants :
        /\ 0 <= historyIndex[p]
        /\ historyIndex[p] <= Len(history[p]) - 1
        /\ Len(history[p]) <= HISTORY_LIMIT

\* a full history that has dropped its oldest snapshot
C29_Witness ==
    /\ Len(history["A"]) = HISTORY_LIMIT
    /\ historyIndex["A"] = HISTORY_LAST_INDEX
    /\ nextId + erased["A"] > HISTORY_LIMIT

\* ------------------------------------------------------------------------
\* The history hook
\* ------------------------------------------------------------------------

\* the boards handed to the hook
HookBoards == {[i \in DOMAIN l |-> ToElement(l[i])] : l \in ShortLists}

\* one more call of the hook made
Called == [historyCalls EXCEPT !.calls = historyCalls.calls + 1]

\* what the hook leaves alone
nonHook == <<strokes, strokesRef, wbListening, wbTimer, wbNet, nextId, erased, wbEvent,
             history, historyIndex, roomState, nonWb>>

\* useWhiteboardHistory(initialElements, maxSize): the first render
UseWhiteboardHistory(initialElements, maxSize) ==
    /\ historyCalls.calls = 0
    /\ historyState' = [past |-> <<>>, present |-> initialElements, future |-> <<>>]
    /\ historyCalls' = [maxSize |-> maxSize, calls |-> 1]
    /\ UNCHANGED nonHook

\* setElements: the elements of the other participants become the present
HookSetElements(elements) ==
    /\ historyCalls.calls > 0
    /\ historyState' = [past |-> historyState.past, present |-> elements,
                        future |-> <<>>]
    /\ historyCalls' = Called
    /\ UNCHANGED nonHook

\* push: the present joins the past, whose oldest snapshot goes once the past
\* is longer than maxSize
HookPush(newElements) ==
    /\ historyCalls.calls > 0
    /\ LET newPast == Append(historyState.past, historyState.present)
       IN  historyState' =
               [past |-> IF Len(newPast) > historyCalls.maxSize
                         THEN Tail(newPast) ELSE newPast,
                present |-> newElements, future |-> <<>>]
    /\ historyCalls' = Called
    /\ UNCHANGED nonHook

\* undo: nothing with an empty past, else the last of the past is the present
HookUndo ==
    /\ historyCalls.calls > 0
    /\ historyState' =
           IF historyState.past = <<>> THEN historyState
           ELSE [past |-> SubSeq(historyState.past, 1, Len(historyState.past) - 1),
                 present |-> historyState.past[Len(historyState.past)],
                 future |-> <<historyState.present>> \o historyState.future]
    /\ historyCalls' = Called
    /\ UNCHANGED nonHook

\* redo: nothing with an empty future, else the present joins the past and
\* the first of the future is the present
HookRedo ==
    /\ historyCalls.calls > 0
    /\ historyState' =
           IF historyState.future = <<>> THEN historyState
           ELSE [past |-> Append(historyState.past, historyState.present),
                 present |-> Head(historyState.future),
                 future |-> Tail(historyState.future)]
    /\ historyCalls' = Called
    /\ UNCHANGED nonHook

\* clear: the present joins the past and the board is empty
HookClear ==
    /\ historyCalls.calls > 0
    /\ historyState' = [past |-> Append(historyState.past, historyState.present),
                        present |-> <<>>, future |-> <<>>]
    /\ historyCalls' = Called
    /\ UNCHANGED nonHook

\* a component that uses the hook, with A alone in the room
InitHook == WbSession({"A"}, [p \in Participants |-> <<>>], {}, 0)

NextHook ==
    \/ \E initialElements \in HookBoards, maxSize \in 1..MaxSize :
          UseWhiteboardHistory(initialElements, maxSize)
    \/ /\ historyCalls.calls < MaxHookCalls
       /\ \/ \E elements \in HookBoards : HookSetElements(elements)
          \/ \E newElements \in HookBoards : HookPush(newElements)
          \/ HookUndo
          \/ HookRedo
          \/ HookClear

SpecHook == InitHook /\ [][NextHook]_vars

\* C30: the past stack of the hook holds at most maxSize snapshots
C30_PastWithinMaxSize ==
    Len(historyState.past) <= historyCalls.maxSize

====
